---- MODULE Spec2Model ----
(***************************************************************************)
(* Verification model of the chat server: the in-memory log buffer of      *)
(* server/storage.ts, the settings store, the /api/generate prompt relay   *)
(* of server/routes.ts and server/prod.ts, the register / login / logout   *)
(* handlers with the session they write, and the chats and messages of     *)
(* MemStorage behind the chat endpoints.                                   *)
(*                                                                         *)
(* Text is modelled as a sequence of atoms.  User-supplied text (prompts,  *)
(* history contents, log messages that are searched) is a sequence of      *)
(* one-character strings; a fixed template fragment or a URL that the code *)
(* only concatenates and never inspects is a single atom.  A missing       *)
(* (undefined) string and the empty string are both <<>>: every place the  *)
(* code tests one it uses truthiness, which does not tell them apart.      *)
(* Non-ASCII letters are written as two-character atoms ("e^" for e-caron).*)
(***************************************************************************)
EXTENDS Integers, Sequences, FiniteSets, TLC

VARIABLES
    build,      \* which server entry point runs: "routes" (index.ts + routes.ts) or "prod" (prod.ts)
    logs,       \* MemStorage.logs / DatabaseStorage.logs
    nextId,     \* number of the next log entry (stands for randomUUID: unique, in append order)
    settings,   \* MemStorage.settings, as the value stored under each key (<<>> = no row)
    users,      \* MemStorage.users
    session,    \* req.session of the one client: its userId (0 = none)
    reply,      \* the last HTTP response sent by an auth handler
    logsView,   \* the last result of getLogs / getErrors, with its arguments
    gen,        \* the /api/generate request under study (handler position and locals)
    saves,      \* number of POST /api/settings/ngrok-url requests handled so far
    auth,       \* the register / login requests in flight, one per request slot
    chats,      \* MemStorage.chats, in insertion order of the Map
    messages,   \* MemStorage.messages, in insertion order of the Map
    ids,        \* numbers of the next chat and the next message (stand for randomUUID)
    now,        \* the clock that new Date() reads, in milliseconds
    last,       \* the last response of logout, /api/auth/me or a chat endpoint
    db,         \* DatabaseStorage: the rows of its settings, chats and messages tables
    call,       \* the storage calls under study: upserts in flight, and the last call's results
    client      \* the Home component of one browser tab: its state and its submits in flight

\* the state of the chat store and of the requests that are split at their awaits
appVars == <<auth, chats, messages, ids, now, last>>

\* the database backend, the storage calls and the browser client
extVars == <<db, call, client>>

vars == <<build, logs, nextId, settings, users, session, reply, logsView, gen, saves, appVars,
          extVars>>

----------------------------------------------------------------------------
(* Bounds of the model *)

MaxLogCalls == 2        \* addLog calls explored after a starting buffer size
MaxLimit == 2           \* largest explicit limit passed to getLogs / getErrors
MaxSaves == 2           \* POST /api/settings/ngrok-url requests in one behaviour
MaxHist == 2            \* longest history sent with a request
LongPad == 1            \* how far the long prompts exceed the log preview length
MaxReqs == 3            \* register / login requests in one behaviour
MaxChats == 2           \* chats created in one behaviour
MaxMessages == 2        \* messages created in one behaviour
MaxClock == 1           \* how far the clock is followed
MaxUpserts == 2         \* upsertSetting calls on the database in one behaviour
MaxUsers == 2           \* users created in one behaviour of the storage calls
MaxSubmits == 2         \* handleSubmit calls of the client in one behaviour
MaxChatLogs == 3        \* log entries written in a behaviour of the chat endpoints

(* Program constants *)

LogCap == 1000          \* storage.ts: if (this.logs.length > 1000) slice(-1000)
DefaultLimit == 50      \* storage.ts: getLogs(limit: number = 50)
PreviewLen == 100       \* routes.ts: prompt.substring(0, 100)

----------------------------------------------------------------------------
(* JavaScript string and array primitives, as the code uses them *)

Min(a, b) == IF a < b THEN a ELSE b
Max(a, b) == IF a > b THEN a ELSE b

UpperCase == <<"A","B","C","D","E","F","G","H","I","J","K","L","M","N","O","P","Q","R","S","T","U","V","W","X","Y","Z">>
LowerCase == <<"a","b","c","d","e","f","g","h","i","j","k","l","m","n","o","p","q","r","s","t","u","v","w","x","y","z">>

\* one character of String.prototype.toLowerCase
LowerChar(c) ==
    IF \E i \in 1..Len(UpperCase) : UpperCase[i] = c
    THEN LowerCase[CHOOSE i \in 1..Len(UpperCase) : UpperCase[i] = c]
    ELSE c

\* String.prototype.toLowerCase
ToLowerCase(s) == [i \in 1..Len(s) |-> LowerChar(s[i])]

\* does k occur in s starting at position p (1-based)
MatchesAt(s, k, p) ==
    /\ p >= 1
    /\ p + Len(k) - 1 <= Len(s)
    /\ \A j \in 1..Len(k) : s[p + j - 1] = k[j]

\* String.prototype.includes
Includes(s, k) == \E p \in 1..(Len(s) + 1) : MatchesAt(s, k, p)

\* String.prototype.substring(0, n)
Substring0(s, n) == SubSeq(s, 1, Min(n, Len(s)))

\* Array.prototype.slice(start) with one argument: a negative start counts
\* from the end, and -0 is 0
Slice(s, start) ==
    LET from == IF start < 0 THEN Max(Len(s) + start, 0) ELSE Min(start, Len(s))
    IN  SubSeq(s, from + 1, Len(s))

\* Array.prototype.reverse
Reverse(s) == [i \in 1..Len(s) |-> s[Len(s) - i + 1]]

----------------------------------------------------------------------------
(* Log messages written by the handlers *)

MsgTestEndpoint == <<"T", "e", "s", "t", " ", "e", "n", "d", "p", "o", "i", "n", "t", " ", "a", "c", "c", "e", "s", "s", "e", "d">>
MsgUserRegistered == <<"U", "s", "e", "r", " ", "r", "e", "g", "i", "s", "t", "e", "r", "e", "d">>
MsgRegistrationFailed == <<"R", "e", "g", "i", "s", "t", "r", "a", "t", "i", "o", "n", " ", "f", "a", "i", "l", "e", "d">>
MsgUserLoggedIn == <<"U", "s", "e", "r", " ", "l", "o", "g", "g", "e", "d", " ", "i", "n">>
MsgLoginFailed == <<"L", "o", "g", "i", "n", " ", "f", "a", "i", "l", "e", "d">>

\* the two substrings getErrors filters on
InvalidCredentials == <<"i", "n", "v", "a", "l", "i", "d", " ", "c", "r", "e", "d", "e", "n", "t", "i", "a", "l", "s">>
LoginFailedText == <<"l", "o", "g", "i", "n", " ", "f", "a", "i", "l", "e", "d">>

\* the data payload of a log entry: the user text it carries and a count
Data(text, count) == [text |-> text, count |-> count]
NoData == Data(<<>>, 0)

----------------------------------------------------------------------------
(* storage.ts: the log buffer *)

\* the LogEntry built by addLog; id stands for randomUUID()
LogEntry(id, level, message, data, username, action) ==
    [id |-> id, level |-> level, message |-> message, data |-> data,
     username |-> username, action |-> action]

\* addLog keeping the oldest entries instead of the newest
AddLogKeepOldest(l, entry) ==
    LET pushed == Append(l, entry)
    IN  IF Len(pushed) > LogCap THEN SubSeq(pushed, 1, LogCap) ELSE pushed

\* MemStorage.addLog / DatabaseStorage.addLog: push, then keep the last 1000
AddLog(l, entry) ==
    LET pushed == Append(l, entry)
    IN  IF Len(pushed) > LogCap THEN Slice(pushed, -LogCap) ELSE pushed

\* MemStorage.getLogs / DatabaseStorage.getLogs
GetLogs(l, limit) == Reverse(Slice(l, -limit))

\* the predicate of the filter in getErrors (Array.prototype.filter is SelectSeq)
IsShownError(log) ==
    /\ log.level = "error"
    /\ ~Includes(ToLowerCase(log.message), InvalidCredentials)
    /\ ~Includes(ToLowerCase(log.message), LoginFailedText)

\* getErrors without the message filter
GetErrorsUnfiltered(l, limit) ==
    LET IsError(log) == log.level = "error"
    IN  Reverse(Slice(SelectSeq(l, IsError), -limit))

\* MemStorage.getErrors / DatabaseStorage.getErrors
GetErrors(l, limit) == Reverse(Slice(SelectSeq(l, IsShownError), -limit))

----------------------------------------------------------------------------
(* storage.ts: settings and users *)

SettingKeys == {"ngrok_url", "ai_model"}

\* MemStorage.getSettingByKey(key)?.value
GetSettingValue(st, key) == st[key]

\* MemStorage.upsertSetting: overwrite the value of the row, or create the row
UpsertSetting(st, key, value) == [st EXCEPT ![key] = value]

\* MemStorage.getNgrokUrl
GetNgrokUrl(st) == GetSettingValue(st, "ngrok_url")

\* MemStorage.getUserByUsername: the users with that username
GetUserByUsername(us, username) == {u \in us : u.username = username}

\* MemStorage.getUser
GetUser(us, id) == {u \in us : u.id = id}

\* Array.prototype.find over the users in insertion order: the first match
FindUserByUsername(us, username) ==
    LET found == GetUserByUsername(us, username)
    IN  {u \in found : \A v \in found : u.id <= v.id}

\* MemStorage.createUser; the id stands for randomUUID()
CreateUser(us, username, password) ==
    us \cup {[id |-> Cardinality(us) + 1, username |-> username, password |-> password]}

\* bcrypt.hash(password, 12)
BcryptHash(password) == <<"$2b$12$">> \o password

\* bcrypt.compare that accepts every password
BcryptCompareAny(password, hash) == TRUE

\* bcrypt.compare(password, hash)
BcryptCompare(password, hash) == hash = BcryptHash(password)

----------------------------------------------------------------------------
(* Inputs of the auth and log handlers *)

Alice == <<"a", "l">>
Usernames == {<<>>, Alice}
Secret == <<"s", "1">>
Passwords == {<<>>, Secret, <<"w", "2">>}

\* sizes of the log buffer the log behaviours start from: empty, and one
\* entry short of the capacity
StartSizes == {0, LogCap - 1}

\* the buffer after n requests to GET /api/test
Prefill(n) ==
    [i \in 1..n |-> LogEntry(i, "info", MsgTestEndpoint, NoData, <<>>, "")]

\* further addLog calls are explored up to MaxLogCalls past a starting size
CanLog(k) ==
    \E n \in StartSizes : nextId - 1 >= n /\ nextId - 1 + k <= n + MaxLogCalls

NoReply == [status |-> 0, error |-> "", userId |-> 0]
NoView == [op |-> "", limit |-> 0, at |-> 0, result |-> <<>>]

Limits == (0..MaxLimit) \cup {DefaultLimit}

----------------------------------------------------------------------------
(* routes.ts: handlers that write or read the log buffer *)

\* GET /api/test
TestEndpoint ==
    /\ build = "routes"
    /\ CanLog(1)
    /\ logs' = AddLog(logs, LogEntry(nextId, "info", MsgTestEndpoint, NoData, <<>>, ""))
    /\ nextId' = nextId + 1
    /\ UNCHANGED <<build, settings, users, session, reply, logsView, gen, saves>>
    /\ UNCHANGED <<appVars, extVars>>

\* POST /api/auth/register; saveOk is whether req.session.save succeeds
Register(username, password, saveOk) ==
    /\ build = "routes"
    /\ CanLog(2)
    /\ IF username = <<>> \/ password = <<>>
       THEN /\ reply' = [status |-> 400, error |-> "Username and password required", userId |-> 0]
            /\ UNCHANGED <<users, logs, nextId, session>>
       ELSE IF GetUserByUsername(users, username) # {}
       THEN /\ reply' = [status |-> 400, error |-> "Username already exists", userId |-> 0]
            /\ UNCHANGED <<users, logs, nextId, session>>
       ELSE LET id == Cardinality(users) + 1
                registered == AddLog(logs, LogEntry(nextId, "info", MsgUserRegistered,
                                                    NoData, username, "register"))
            IN  /\ users' = CreateUser(users, username, BcryptHash(password))
                /\ IF saveOk
                   THEN /\ session' = id
                        /\ logs' = registered
                        /\ nextId' = nextId + 1
                        /\ reply' = [status |-> 200, error |-> "", userId |-> id]
                   ELSE /\ session' = session
                        /\ logs' = AddLog(registered,
                                          LogEntry(nextId + 1, "error", MsgRegistrationFailed,
                                                   NoData, username, "register"))
                        /\ nextId' = nextId + 2
                        /\ reply' = [status |-> 500, error |-> "Registration failed", userId |-> 0]
    /\ UNCHANGED <<build, settings, logsView, gen, saves>>
    /\ UNCHANGED <<appVars, extVars>>

\* POST /api/auth/login; saveOk is whether req.session.save succeeds
Login(username, password, saveOk) ==
    /\ build = "routes"
    /\ CanLog(1)
    /\ LET found == GetUserByUsername(users, username)
       IN  IF username = <<>> \/ password = <<>>
           THEN /\ reply' = [status |-> 400, error |-> "Username and password required", userId |-> 0]
                /\ UNCHANGED <<logs, nextId, session>>
           ELSE IF found = {}
           THEN /\ reply' = [status |-> 401, error |-> "Invalid credentials", userId |-> 0]
                /\ UNCHANGED <<logs, nextId, session>>
           ELSE LET user == CHOOSE u \in found : TRUE
                IN  IF ~BcryptCompare(password, user.password)
                    THEN /\ reply' = [status |-> 401, error |-> "Invalid credentials", userId |-> 0]
                         /\ UNCHANGED <<logs, nextId, session>>
                    ELSE IF saveOk
                    THEN /\ session' = user.id
                         /\ logs' = AddLog(logs, LogEntry(nextId, "info", MsgUserLoggedIn,
                                                          NoData, username, "login"))
                         /\ nextId' = nextId + 1
                         /\ reply' = [status |-> 200, error |-> "", userId |-> user.id]
                    ELSE /\ session' = session
                         /\ logs' = AddLog(logs, LogEntry(nextId, "error", MsgLoginFailed,
                                                          NoData, username, "login"))
                         /\ nextId' = nextId + 1
                         /\ reply' = [status |-> 500, error |-> "Login failed", userId |-> 0]
    /\ UNCHANGED <<build, settings, users, logsView, gen, saves>>
    /\ UNCHANGED <<appVars, extVars>>

\* a call of storage.getLogs(limit), as GET /api/logs makes it
GetLogsCall(limit) ==
    /\ logsView' = [op |-> "getLogs", limit |-> limit, at |-> nextId,
                    result |-> GetLogs(logs, limit)]
    /\ UNCHANGED <<build, logs, nextId, settings, users, session, reply, gen, saves>>
    /\ UNCHANGED <<appVars, extVars>>

\* a call of storage.getErrors(limit), as GET /api/errors makes it
GetErrorsCall(limit) ==
    /\ logsView' = [op |-> "getErrors", limit |-> limit, at |-> nextId,
                    result |-> GetErrors(logs, limit)]
    /\ UNCHANGED <<build, logs, nextId, settings, users, session, reply, gen, saves>>
    /\ UNCHANGED <<appVars, extVars>>

----------------------------------------------------------------------------
(* routes.ts: prompt assembly of POST /api/generate *)

\* searchKeywords
SearchKeywords ==
    { <<"n", "a", "j", "d", "i">>, <<"v", "y", "h", "l", "e", "d", "e", "j">>, <<"h", "l", "e", "d", "e", "j">>, <<"c", "o", " ", "s", "e", " ", "d", "e^", "j", "e">>, <<"a", "k", "t", "u", "a'", "l", "n", "i'">>,
      <<"n", "o", "v", "i", "n", "k", "y">>, <<"z", "p", "r", "a'", "v", "y">>, <<"n", "a", " ", "w", "e", "b", "u">>, <<"g", "o", "o", "g", "l", "e">>, <<"s", "e", "a", "r", "c", "h">> }

\* the alternatives of /najdi|vyhledej|hledej|na webu|google|mi/gi, in order
StripTerms ==
    << <<"n", "a", "j", "d", "i">>, <<"v", "y", "h", "l", "e", "d", "e", "j">>, <<"h", "l", "e", "d", "e", "j">>, <<"n", "a", " ", "w", "e", "b", "u">>, <<"g", "o", "o", "g", "l", "e">>, <<"m", "i">> >>

\* searchKeywords.some(keyword => prompt.toLowerCase().includes(keyword.toLowerCase()))
IsSearchQuery(prompt) ==
    \E k \in SearchKeywords : Includes(ToLowerCase(prompt), ToLowerCase(k))

\* the alternatives that match at position p of the lower-cased text
TermsAt(low, p) == {k \in 1..Len(StripTerms) : MatchesAt(low, StripTerms[k], p)}

\* String.prototype.replace(/.../gi, ''): from position p, copy up to the
\* leftmost position q where an alternative matches, drop the match of the
\* first alternative in order that matches there, and go on after it
RECURSIVE StripFrom(_, _, _)
StripFrom(s, low, p) ==
    LET starts == {q \in p..Len(s) : TermsAt(low, q) # {}}
    IN  IF starts = {} THEN SubSeq(s, p, Len(s))
        ELSE LET q == CHOOSE x \in starts : \A y \in starts : x <= y
                 k == CHOOSE h \in TermsAt(low, q) : \A o \in TermsAt(low, q) : h <= o
             IN  SubSeq(s, p, q - 1) \o StripFrom(s, low, q + Len(StripTerms[k]))

IsSpace(c) == c \in {" ", "\n", "\t"}

\* String.prototype.trim
RECURSIVE Trim(_)
Trim(s) ==
    IF s = <<>> THEN <<>>
    ELSE IF IsSpace(Head(s)) THEN Trim(Tail(s))
    ELSE IF IsSpace(s[Len(s)]) THEN Trim(SubSeq(s, 1, Len(s) - 1))
    ELSE s

\* const searchQuery = prompt.replace(/najdi|vyhledej|hledej|na webu|google|mi/gi, '').trim()
SearchQuery(prompt) == Trim(StripFrom(prompt, ToLowerCase(prompt), 1))

\* `${msg.type === 'user' ? 'Human' : 'Assistant'}: ${msg.content}`
RenderEntry(msg) ==
    <<IF msg.type = "user" THEN "Human" ELSE "Assistant", ": ">> \o msg.content

\* history.map(...).join('\n')
RECURSIVE JoinLines(_)
JoinLines(lines) ==
    IF lines = <<>> THEN <<>>
    ELSE IF Len(lines) = 1 THEN lines[1]
    ELSE lines[1] \o <<"\n">> \o JoinLines(Tail(lines))

\* const historyText = history.map(...).join('\n')
HistoryText(history) == JoinLines([i \in 1..Len(history) |-> RenderEntry(history[i])])

\* the fixed fragments of the two prompt templates, each one atom
TplHistoryIntro == <<"[You are a helpful AI assistant ... === Recent Conversation History ===]", "\n">>
TplHistoryOutro == <<"\n", "[=== End of History === Now respond to the current message ...]", "\n", "\n">>
TplSearchIntro == <<"[Uzivatel se pta:]">>
TplSearchMid == <<"[Zde jsou aktualni informace z weboveho vyhledavani:]", "\n">>
TplSearchOutro == <<"\n", "\n", "[Na zaklade techto informaci odpovez uzivateli v cestine ...]">>

\* the roleplay template: history block, then the prompt (routes.ts 376-384)
RoleplayPrompt(prompt, history) ==
    TplHistoryIntro \o HistoryText(history) \o TplHistoryOutro \o prompt

\* the search template (routes.ts 362-367)
SearchPrompt(prompt, searchResults) ==
    TplSearchIntro \o prompt \o TplSearchMid \o searchResults \o TplSearchOutro

\* finalPrompt as the handler leaves it before building requestBody
FinalPrompt(prompt, history, isSearchQuery, searchResults) ==
    IF isSearchQuery THEN SearchPrompt(prompt, searchResults)
    ELSE IF Len(history) > 0 THEN RoleplayPrompt(prompt, history)
    ELSE prompt

----------------------------------------------------------------------------
(* routes.ts / prod.ts: target URL of the relay *)

FallbackUrl == <<"https://0c8125184293.ngrok-free.app">>

\* routes.ts: const targetUrl = ngrokUrl || savedNgrokUrl || '<fallback>'
TargetUrl(ngrokUrl, savedNgrokUrl) ==
    IF ngrokUrl # <<>> THEN ngrokUrl
    ELSE IF savedNgrokUrl # <<>> THEN savedNgrokUrl
    ELSE FallbackUrl

\* prod.ts: const targetUrl = ngrokUrl || '<fallback>'
ProdTargetUrl(ngrokUrl) == IF ngrokUrl # <<>> THEN ngrokUrl ELSE FallbackUrl

\* const fullUrl = `${targetUrl}/api/generate`
FullUrl(targetUrl) == targetUrl \o <<"/api/generate">>

----------------------------------------------------------------------------
(* Responses of POST /api/generate *)

Response(status, error, details) == [status |-> status, error |-> error, details |-> details]
NoResponse == Response(0, "", "")

RespMissingPrompt == Response(400, "Prompt is required", "")
RespRelayed == Response(200, "", "")
\* routes.ts
RespBadStatus == Response(500, "AI service error", "Service responded with <status>")
RespTimeout == Response(408, "AI service timeout", "")
RespNetwork == Response(503, "Network connectivity issue", "")
RespGeneric == Response(500, "Failed to process AI request", "")
\* prod.ts: one catch block, details = error.message
ProdResp(details) == Response(500, "Failed to connect to AI service", details)

----------------------------------------------------------------------------
(* Inputs of POST /api/generate and of the upstream *)

Digits == <<"1", "2", "3", "4", "5", "6", "7", "8", "9">>

\* the first n messages of a conversation, as the client sends them:
\* {type: 'user' | 'ai', content}
Conversation(n) ==
    [i \in 1..n |-> [type |-> IF i % 2 = 1 THEN "user" ELSE "ai",
                     content |-> <<"m", Digits[i]>>]]

Histories == {Conversation(n) : n \in 0..MaxHist}

Filler(n) == [i \in 1..n |-> "x"]

PromptHi == <<"h", "i">>
PromptLong == Filler(PreviewLen + LongPad)
PromptSearch == <<"G", "o", "o", "g", "l", "e", " ", "h", "i">>
PromptSearchLong == <<"s", "e", "a", "r", "c", "h", " ">> \o Filler(PreviewLen + LongPad)

Prompts == {<<>>, PromptHi, PromptLong, PromptSearch, PromptSearchLong}

UrlA == <<"https://a.ngrok-free.app">>
UrlB == <<"https://b.ngrok-free.app">>
Overrides == {<<>>, UrlA}
SavedUrls == {<<>>, UrlA, UrlB}

\* how fetch() settles: a response (status class, content-type), or a rejection
\*   network: TypeError 'fetch failed' (DNS, refused, reset)
\*   other:   any other rejection, e.g. TypeError 'Failed to parse URL from ...'
FetchResponses == {"bad-status", "ok-json", "ok-html"}
FetchRejections == {"network", "other"}

\* The request in progress, gen: the handler's position pc and its locals
\* (prompt, history, ngrokUrl, isSearchQuery, finalPrompt, fullUrl), plus what
\* an observer of the request sees: savedNgrokUrl, the ngrok_url setting when
\* the fetch was issued; timer, the abort timer; calls, the POSTs sent to
\* fullUrl; upstream, how the fetch settled; reading and parsed, how the body
\* is read and whether response.json() was called; body, how the read ended;
\* response, what was sent to the client; firstLog, the log id at arrival.

\* how reading the body ends: it parses as JSON, it does not, or the stream fails
BodyOutcomes == {"json", "not-json", "stream-error"}

SearchResultsFound == <<"[search results]">>
SearchResultsFailed == <<"[Omlouvam se, nepodarilo se mi vyhledat informace na webu.]">>

NoGen ==
    [pc |-> "idle", prompt |-> <<>>, history |-> <<>>, ngrokUrl |-> <<>>,
     isSearchQuery |-> FALSE, finalPrompt |-> <<>>, fullUrl |-> <<>>,
     savedNgrokUrl |-> <<>>, timer |-> "none", calls |-> 0, upstream |-> "",
     reading |-> "", parsed |-> FALSE, body |-> "", response |-> NoResponse,
     firstLog |-> 0]

----------------------------------------------------------------------------
(* routes.ts: POST /api/generate *)

MsgMissingPrompt == <<"Generate request missing prompt">>
MsgSearching == <<"Searching web for: ">>
MsgSearchCompleted == <<"Web search completed">>
MsgSearchFailed == <<"Web search failed">>
MsgAiRequestTo == <<"AI request to ">>
MsgAiServiceError == <<"AI service error: <status>">>
MsgAiSuccess == <<"AI request successful">>
MsgAiTimeout == <<"AI request timeout">>
MsgNetworkError == <<"Network error - cannot reach AI service">>
MsgGenerateError == <<"Generate endpoint error">>
MsgNgrokUrlChanged == <<"Ngrok URL changed">>

RelayLog(id, level, message, data) == LogEntry(id, level, message, data, <<>>, "")

\* new AbortController; setTimeout(() => controller.abort(), 300000); fetch(fullUrl, ...)
IssueFetch(g, fullUrl) ==
    [g EXCEPT !.pc = "awaitFetch", !.fullUrl = fullUrl, !.timer = "armed", !.calls = @ + 1]

\* the handler from building requestBody to the fetch call (routes.ts 387-419):
\* read the saved URL, log the attempt, arm the abort timer, issue the fetch;
\* l and id are the log buffer and the next log id at that point
StartUpstream(g, searchResults, l, id) ==
    LET savedNgrokUrl == GetNgrokUrl(settings)
        fullUrl == FullUrl(TargetUrl(g.ngrokUrl, savedNgrokUrl))
        final == FinalPrompt(g.prompt, g.history, g.isSearchQuery, searchResults)
    IN  /\ logs' = AddLog(l, RelayLog(id, "info", MsgAiRequestTo \o fullUrl,
                                      Data(Substring0(g.prompt, PreviewLen), Len(g.history))))
        /\ nextId' = id + 1
        /\ gen' = IssueFetch([g EXCEPT !.finalPrompt = final,
                                       !.savedNgrokUrl = savedNgrokUrl], fullUrl)

\* the request arrives: validation, search detection, and for a plain prompt
\* everything up to the fetch call
GenerateReceive(prompt, history, ngrokUrl) ==
    /\ build = "routes"
    /\ gen.pc = "idle"
    /\ LET g == [NoGen EXCEPT !.prompt = prompt, !.history = history,
                              !.ngrokUrl = ngrokUrl, !.firstLog = nextId]
       IN  IF prompt = <<>>
           THEN /\ logs' = AddLog(logs, RelayLog(nextId, "error", MsgMissingPrompt,
                                                 Data(prompt, Len(history))))
                /\ nextId' = nextId + 1
                /\ gen' = [g EXCEPT !.pc = "done", !.response = RespMissingPrompt]
           ELSE IF IsSearchQuery(prompt)
           THEN /\ logs' = AddLog(logs, RelayLog(nextId, "info",
                                                 MsgSearching \o SearchQuery(prompt), NoData))
                /\ nextId' = nextId + 1
                /\ gen' = [g EXCEPT !.pc = "awaitSearch", !.isSearchQuery = TRUE]
           ELSE StartUpstream(g, <<>>, logs, nextId)
    /\ UNCHANGED <<build, settings, users, session, reply, logsView, saves>>
    /\ UNCHANGED <<appVars, extVars>>

\* searchWeb settles (it catches its own errors and logs the outcome), and
\* the handler goes on to the fetch call
SearchDone(found) ==
    /\ gen.pc = "awaitSearch"
    /\ LET query == SearchQuery(gen.prompt)
           entry == IF found
                    THEN RelayLog(nextId, "info", MsgSearchCompleted, Data(query, 0))
                    ELSE RelayLog(nextId, "error", MsgSearchFailed, Data(query, 0))
           results == IF found THEN SearchResultsFound ELSE SearchResultsFailed
       IN  StartUpstream(gen, results, AddLog(logs, entry), nextId + 1)
    /\ UNCHANGED <<build, settings, users, session, reply, logsView, saves>>
    /\ UNCHANGED <<appVars, extVars>>

\* fetch resolves with a response: clearTimeout, then read the body, as text
\* for a non-2xx status and through response.json() otherwise
FetchResponds(kind) ==
    /\ build = "routes"
    /\ gen.pc = "awaitFetch"
    /\ gen' = [gen EXCEPT !.pc = "awaitBody", !.timer = "cleared", !.upstream = kind,
                          !.reading = IF kind = "bad-status" THEN "text" ELSE "json",
                          !.parsed = (kind # "bad-status")]
    /\ UNCHANGED <<build, logs, nextId, settings, users, session, reply, logsView, saves>>
    /\ UNCHANGED <<appVars, extVars>>

\* what the handler answers once the body read ends (routes.ts 423-442, and
\* the two catch blocks for a read that throws)
AfterBody(g, outcome) ==
    IF outcome = "stream-error" THEN
        [level |-> "error", message |-> MsgGenerateError, response |-> RespGeneric]
    ELSE IF g.reading = "text" THEN
        [level |-> "error", message |-> MsgAiServiceError, response |-> RespBadStatus]
    ELSE IF outcome = "json" THEN
        [level |-> "info", message |-> MsgAiSuccess, response |-> RespRelayed]
    ELSE
        [level |-> "error", message |-> MsgGenerateError, response |-> RespGeneric]

\* the body read ends
BodyArrives(outcome) ==
    /\ build = "routes"
    /\ gen.pc = "awaitBody"
    /\ LET end == AfterBody(gen, outcome)
       IN  /\ logs' = AddLog(logs, RelayLog(nextId, end.level, end.message, NoData))
           /\ gen' = [gen EXCEPT !.pc = "done", !.body = outcome, !.response = end.response]
    /\ nextId' = nextId + 1
    /\ UNCHANGED <<build, settings, users, session, reply, logsView, saves>>
    /\ UNCHANGED <<appVars, extVars>>

\* a rejected fetch answered by calling the upstream again
AfterRejectionRetry(g, kind) ==
    [level |-> "error", message |-> MsgNetworkError,
     gen |-> IF g.calls < 2
             THEN [g EXCEPT !.pc = "awaitFetch", !.calls = @ + 1]
             ELSE [g EXCEPT !.pc = "done", !.upstream = kind, !.response = RespNetwork]]

\* catch (fetchError): clearTimeout, then AbortError -> 408, a network message
\* -> 503, anything else rethrown to the outer catch -> 500 (routes.ts 444-482)
AfterRejection(g, kind) ==
    LET end == IF kind = "abort" THEN [message |-> MsgAiTimeout, response |-> RespTimeout]
               ELSE IF kind = "network" THEN [message |-> MsgNetworkError, response |-> RespNetwork]
               ELSE [message |-> MsgGenerateError, response |-> RespGeneric]
    IN  [level |-> "error", message |-> end.message,
         gen |-> [g EXCEPT !.pc = "done", !.upstream = kind, !.response = end.response,
                           !.timer = IF kind = "abort" THEN "fired" ELSE "cleared"]]

\* fetch rejects before any response
FetchFails(kind) ==
    /\ build = "routes"
    /\ gen.pc = "awaitFetch"
    /\ LET end == AfterRejection(gen, kind)
       IN  /\ logs' = AddLog(logs, RelayLog(nextId, end.level, end.message, NoData))
           /\ gen' = end.gen
    /\ nextId' = nextId + 1
    /\ UNCHANGED <<build, settings, users, session, reply, logsView, saves>>
    /\ UNCHANGED <<appVars, extVars>>

\* the abort timer fires while the fetch is outstanding: controller.abort()
\* rejects the fetch with an AbortError
TimerFires ==
    /\ gen.pc = "awaitFetch"
    /\ gen.timer = "armed"
    /\ LET end == AfterRejection(gen, "abort")
       IN  /\ logs' = AddLog(logs, RelayLog(nextId, end.level, end.message, NoData))
           /\ gen' = end.gen
    /\ nextId' = nextId + 1
    /\ UNCHANGED <<build, settings, users, session, reply, logsView, saves>>
    /\ UNCHANGED <<appVars, extVars>>

\* POST /api/settings/ngrok-url (routes.ts)
SaveNgrokUrl(ngrokUrl) ==
    /\ build = "routes"
    /\ saves < MaxSaves
    /\ saves' = saves + 1
    /\ IF ngrokUrl = <<>>
       THEN UNCHANGED <<settings, logs, nextId>>
       ELSE /\ settings' = UpsertSetting(settings, "ngrok_url", ngrokUrl)
            /\ logs' = AddLog(logs, LogEntry(nextId, "info", MsgNgrokUrlChanged,
                                             Data(ngrokUrl, 0), <<>>, "change_ngrok_url"))
            /\ nextId' = nextId + 1
    /\ UNCHANGED <<build, users, session, reply, logsView, gen>>
    /\ UNCHANGED <<appVars, extVars>>

----------------------------------------------------------------------------
(* prod.ts: POST /api/generate and POST /api/settings/ngrok-url *)

\* fetch(fullUrl, ...) without a signal
ProdIssueFetch(g, fullUrl) ==
    [g EXCEPT !.pc = "awaitFetch", !.fullUrl = fullUrl, !.calls = @ + 1]

\* the request arrives: validation, then the fetch call; history is not read
ProdGenerateReceive(prompt, history, ngrokUrl) ==
    /\ build = "prod"
    /\ gen.pc = "idle"
    /\ LET g == [NoGen EXCEPT !.prompt = prompt, !.history = history,
                              !.ngrokUrl = ngrokUrl, !.firstLog = nextId]
       IN  IF prompt = <<>>
           THEN gen' = [g EXCEPT !.pc = "done", !.response = RespMissingPrompt]
           ELSE gen' = ProdIssueFetch([g EXCEPT !.finalPrompt = prompt,
                                                !.savedNgrokUrl = GetNgrokUrl(settings)],
                                      FullUrl(ProdTargetUrl(ngrokUrl)))
    /\ UNCHANGED <<build, logs, nextId, settings, users, session, reply, logsView, saves>>
    /\ UNCHANGED <<appVars, extVars>>

\* fetch resolves with a response: a non-2xx status or a content-type other
\* than application/json is read as text, a JSON content-type through
\* response.json()
ProdFetchResponds(kind) ==
    /\ build = "prod"
    /\ gen.pc = "awaitFetch"
    /\ gen' = [gen EXCEPT !.pc = "awaitBody", !.upstream = kind,
                          !.reading = IF kind = "ok-json" THEN "json" ELSE "text",
                          !.parsed = (kind = "ok-json")]
    /\ UNCHANGED <<build, logs, nextId, settings, users, session, reply, logsView, saves>>
    /\ UNCHANGED <<appVars, extVars>>

\* what the handler answers once the body read ends (prod.ts 431-453)
ProdAfterBody(g, outcome) ==
    IF outcome = "stream-error" THEN ProdResp("<stream error message>")
    ELSE IF g.upstream = "bad-status" THEN ProdResp("Ngrok API error: <status>")
    ELSE IF g.upstream = "ok-html" THEN ProdResp("Ngrok endpoint returned non-JSON response")
    ELSE IF outcome = "json" THEN RespRelayed
    ELSE ProdResp("<JSON syntax error message>")

\* the body read ends
ProdBodyArrives(outcome) ==
    /\ build = "prod"
    /\ gen.pc = "awaitBody"
    /\ gen' = [gen EXCEPT !.pc = "done", !.body = outcome,
                          !.response = ProdAfterBody(gen, outcome)]
    /\ UNCHANGED <<build, logs, nextId, settings, users, session, reply, logsView, saves>>
    /\ UNCHANGED <<appVars, extVars>>

\* fetch rejects before any response: the one catch block
ProdFetchFails(kind) ==
    /\ build = "prod"
    /\ gen.pc = "awaitFetch"
    /\ gen' = [gen EXCEPT !.pc = "done", !.upstream = kind,
                          !.response = ProdResp(IF kind = "network" THEN "fetch failed"
                                                ELSE "<error message>")]
    /\ UNCHANGED <<build, logs, nextId, settings, users, session, reply, logsView, saves>>
    /\ UNCHANGED <<appVars, extVars>>

\* POST /api/settings/ngrok-url (prod.ts)
ProdSaveNgrokUrl(ngrokUrl) ==
    /\ build = "prod"
    /\ saves < MaxSaves
    /\ saves' = saves + 1
    /\ IF ngrokUrl = <<>>
       THEN UNCHANGED settings
       ELSE settings' = UpsertSetting(settings, "ngrok_url", ngrokUrl)
    /\ UNCHANGED <<build, logs, nextId, users, session, reply, logsView, gen>>
    /\ UNCHANGED <<appVars, extVars>>

----------------------------------------------------------------------------
(* routes.ts and prod.ts: register and login, split where the handler      *)
(* waits for something outside the process: bcrypt (a worker thread) and   *)
(* the session store's save callback.  Awaits of MemStorage calls resume   *)
(* in the same turn of the event loop and split nothing.  Each request     *)
(* slot carries one request from arrival to response.                      *)

Slots == 1..MaxReqs

NoAuth == [pc |-> "idle", kind |-> "", username |-> <<>>, password |-> <<>>,
           found |-> 0, hash |-> <<>>, userId |-> 0, response |-> NoReply, seen |-> {}]

\* slots are taken in order
Free(r) ==
    /\ auth[r].pc = "idle"
    /\ IF r = 1 THEN TRUE ELSE auth[r - 1].pc # "idle"

\* the request as it arrives; seen is the set of requests already answered
Arrived(r, kind, username, password) ==
    [NoAuth EXCEPT !.kind = kind, !.username = username, !.password = password,
                   !.seen = {s \in Slots : auth[s].pc = "done"}]

\* res.status(status).json({error}) and return
Rejected(a, status, error) ==
    [a EXCEPT !.pc = "done", !.response = [status |-> status, error |-> error, userId |-> 0]]

\* a login that tells the caller the username is not registered
UserNotFoundRevealed(a) == Rejected(a, 404, "User not found")

\* login, if (!user): the same 401 as for a wrong password
UserNotFound(a) == Rejected(a, 401, "Invalid credentials")

\* the handler answers success without waiting for req.session.save
RespondBeforeSave(a, userId) ==
    [a EXCEPT !.pc = "done", !.userId = userId,
              !.response = [status |-> 200, error |-> "", userId |-> userId]]

\* req.session.userId = user.id; await new Promise(... req.session.save(cb) ...)
AwaitSave(a, userId) == [a EXCEPT !.pc = "saving", !.userId = userId]

\* session.destroy that leaves the stored session as it is
DestroySessionKeep(s) == s

\* req.session.destroy: the stored session is gone
DestroySession(s) == 0

\* POST /api/auth/register (routes.ts) up to await bcrypt.hash
RegisterStart(r, username, password) ==
    /\ build = "routes"
    /\ Free(r)
    /\ LET a == Arrived(r, "register", username, password)
       IN  auth' = [auth EXCEPT ![r] =
                IF username = <<>> \/ password = <<>>
                THEN Rejected(a, 400, "Username and password required")
                ELSE IF GetUserByUsername(users, username) # {}
                THEN Rejected(a, 400, "Username already exists")
                ELSE [a EXCEPT !.pc = "hashing"]]
    /\ UNCHANGED <<build, logs, nextId, settings, users, session, reply, logsView, gen, saves,
                   chats, messages, ids, now, last>>
    /\ UNCHANGED extVars

\* POST /api/auth/register (routes.ts) from the hash to req.session.save
RegisterHashed(r) ==
    /\ build = "routes"
    /\ auth[r].pc = "hashing"
    /\ LET a == auth[r]
           id == Cardinality(users) + 1
       IN  /\ users' = CreateUser(users, a.username, BcryptHash(a.password))
           /\ logs' = AddLog(logs, LogEntry(nextId, "info", MsgUserRegistered, NoData,
                                            a.username, "register"))
           /\ nextId' = nextId + 1
           /\ auth' = [auth EXCEPT ![r] = AwaitSave(a, id)]
    /\ UNCHANGED <<build, settings, session, reply, logsView, gen, saves,
                   chats, messages, ids, now, last>>
    /\ UNCHANGED extVars

\* POST /api/auth/login (routes.ts) up to await bcrypt.compare
LoginStart(r, username, password) ==
    /\ build = "routes"
    /\ Free(r)
    /\ LET a == Arrived(r, "login", username, password)
           found == FindUserByUsername(users, username)
       IN  auth' = [auth EXCEPT ![r] =
                IF username = <<>> \/ password = <<>>
                THEN Rejected(a, 400, "Username and password required")
                ELSE IF found = {}
                THEN UserNotFound(a)
                ELSE LET user == CHOOSE u \in found : TRUE
                     IN  [a EXCEPT !.pc = "comparing", !.found = user.id, !.hash = user.password]]
    /\ UNCHANGED <<build, logs, nextId, settings, users, session, reply, logsView, gen, saves,
                   chats, messages, ids, now, last>>
    /\ UNCHANGED extVars

\* POST /api/auth/login (routes.ts) from the comparison to req.session.save
LoginCompared(r) ==
    /\ build = "routes"
    /\ auth[r].pc = "comparing"
    /\ LET a == auth[r]
       IN  auth' = [auth EXCEPT ![r] =
                IF ~BcryptCompare(a.password, a.hash)
                THEN Rejected(a, 401, "Invalid credentials")
                ELSE AwaitSave(a, a.found)]
    /\ UNCHANGED <<build, logs, nextId, settings, users, session, reply, logsView, gen, saves,
                   chats, messages, ids, now, last>>
    /\ UNCHANGED extVars

\* POST /api/auth/register (prod.ts) up to req.session.save
ProdRegister(r, username, password) ==
    /\ build = "prod"
    /\ Free(r)
    /\ LET a == Arrived(r, "register", username, password)
           id == Cardinality(users) + 1
       IN  IF username = <<>> \/ password = <<>>
           THEN /\ auth' = [auth EXCEPT ![r] = Rejected(a, 400, "Username and password required")]
                /\ UNCHANGED <<users, logs, nextId>>
           ELSE IF GetUserByUsername(users, username) # {}
           THEN /\ auth' = [auth EXCEPT ![r] = Rejected(a, 400, "Username already exists")]
                /\ UNCHANGED <<users, logs, nextId>>
           ELSE /\ users' = CreateUser(users, username, password)
                /\ logs' = AddLog(logs, LogEntry(nextId, "info", MsgUserRegistered, NoData,
                                                 username, "register"))
                /\ nextId' = nextId + 1
                /\ auth' = [auth EXCEPT ![r] = AwaitSave(a, id)]
    /\ UNCHANGED <<build, settings, session, reply, logsView, gen, saves,
                   chats, messages, ids, now, last>>
    /\ UNCHANGED extVars

\* POST /api/auth/login (prod.ts) up to req.session.save
ProdLogin(r, username, password) ==
    /\ build = "prod"
    /\ Free(r)
    /\ LET a == Arrived(r, "login", username, password)
           found == FindUserByUsername(users, username)
       IN  auth' = [auth EXCEPT ![r] =
                IF username = <<>> \/ password = <<>>
                THEN Rejected(a, 400, "Username and password required")
                ELSE IF found = {}
                THEN UserNotFound(a)
                ELSE LET user == CHOOSE u \in found : TRUE
                     IN  IF user.password # password
                         THEN Rejected([a EXCEPT !.found = user.id, !.hash = user.password],
                                       401, "Invalid credentials")
                         ELSE AwaitSave([a EXCEPT !.found = user.id, !.hash = user.password],
                                        user.id)]
    /\ UNCHANGED <<build, logs, nextId, settings, users, session, reply, logsView, gen, saves,
                   chats, messages, ids, now, last>>
    /\ UNCHANGED extVars

\* the callback of req.session.save, and the handler from there to its
\* response; ok is whether the store saved the session
SessionSaved(r, ok) ==
    /\ auth[r].pc = "saving"
    /\ LET a == auth[r]
       IN  IF ok
           THEN /\ session' = a.userId
                /\ auth' = [auth EXCEPT ![r] =
                       [a EXCEPT !.pc = "done",
                                 !.response = [status |-> 200, error |-> "", userId |-> a.userId]]]
                /\ IF a.kind = "login"
                   THEN /\ logs' = AddLog(logs, LogEntry(nextId, "info", MsgUserLoggedIn, NoData,
                                                         a.username, "login"))
                        /\ nextId' = nextId + 1
                   ELSE UNCHANGED <<logs, nextId>>
           ELSE /\ session' = session
                /\ auth' = [auth EXCEPT ![r] =
                       Rejected(a, 500, IF a.kind = "login" THEN "Login failed"
                                        ELSE "Registration failed")]
                /\ logs' = AddLog(logs, LogEntry(nextId, "error",
                                                 IF a.kind = "login" THEN MsgLoginFailed
                                                 ELSE MsgRegistrationFailed,
                                                 NoData, a.username, a.kind))
                /\ nextId' = nextId + 1
    /\ UNCHANGED <<build, settings, users, reply, logsView, gen, saves,
                   chats, messages, ids, now, last>>
    /\ UNCHANGED extVars

----------------------------------------------------------------------------
(* storage.ts: chats and messages.  A Map is modelled as the sequence of   *)
(* its values in insertion order, which is the order Map.values() yields;  *)
(* set() on an existing key keeps the entry's position.                    *)

\* the Chat built by createChat
Chat(id, userId, title, createdAt, updatedAt) ==
    [id |-> id, userId |-> userId, title |-> title,
     createdAt |-> createdAt, updatedAt |-> updatedAt]

\* the Message built by createMessage
Message(id, chatId, content, type, createdAt) ==
    [id |-> id, chatId |-> chatId, content |-> content, type |-> type,
     createdAt |-> createdAt]

\* ms.sort((a, b) => a.createdAt - b.createdAt): ascending, and stable, so
\* entries with equal createdAt keep their order
SortByCreatedAt(ms) ==
    LET n == Len(ms)
        Rank(i) == 1 + Cardinality({j \in 1..n :
                        \/ ms[j].createdAt < ms[i].createdAt
                        \/ ms[j].createdAt = ms[i].createdAt /\ j < i})
    IN  [k \in 1..n |-> ms[CHOOSE i \in 1..n : Rank(i) = k]]

\* cs.sort((a, b) => b.updatedAt - a.updatedAt): descending, stable
SortByUpdatedAtDesc(cs) ==
    LET n == Len(cs)
        Rank(i) == 1 + Cardinality({j \in 1..n :
                        \/ cs[j].updatedAt > cs[i].updatedAt
                        \/ cs[j].updatedAt = cs[i].updatedAt /\ j < i})
    IN  [k \in 1..n |-> cs[CHOOSE i \in 1..n : Rank(i) = k]]

\* getUserChats that returns the user's chats in the order of the Map
GetUserChatsUnsorted(cs, userId) == SelectSeq(cs, LAMBDA c : c.userId = userId)

\* MemStorage.getUserChats
GetUserChats(cs, userId) ==
    SortByUpdatedAtDesc(SelectSeq(cs, LAMBDA c : c.userId = userId))

\* getChatMessages with a sort that puts entries of equal createdAt last-first
GetChatMessagesUnstable(ms, chatId) ==
    LET own == SelectSeq(ms, LAMBDA m : m.chatId = chatId)
        n == Len(own)
        Rank(i) == 1 + Cardinality({j \in 1..n :
                        \/ own[j].createdAt < own[i].createdAt
                        \/ own[j].createdAt = own[i].createdAt /\ j > i})
    IN  [k \in 1..n |-> own[CHOOSE i \in 1..n : Rank(i) = k]]

\* MemStorage.getChatMessages
GetChatMessages(ms, chatId) ==
    SortByCreatedAt(SelectSeq(ms, LAMBDA m : m.chatId = chatId))

\* this.chats.get(chatId), as the set of chats stored under that id
GetChat(cs, chatId) == {cs[i] : i \in {j \in 1..Len(cs) : cs[j].id = chatId}}

\* MemStorage.createChat
CreateChat(cs, id, userId, title, t) == Append(cs, Chat(id, userId, title, t, t))

\* MemStorage.updateChat
UpdateChat(cs, chatId, title, t) ==
    [i \in 1..Len(cs) |->
        IF cs[i].id = chatId THEN [cs[i] EXCEPT !.title = title, !.updatedAt = t] ELSE cs[i]]

\* MemStorage.deleteChat, the messages: every message of the chat is removed
DeleteChatMessages(ms, chatId) == SelectSeq(ms, LAMBDA m : m.chatId # chatId)

\* deleteChat that removes the chat only for the user of the session
DeleteChatOfOwner(cs, chatId) == SelectSeq(cs, LAMBDA c : c.id # chatId \/ c.userId # session)

\* MemStorage.deleteChat, the chat: this.chats.delete(chatId)
DeleteChat(cs, chatId) == SelectSeq(cs, LAMBDA c : c.id # chatId)

\* MemStorage.createMessage, the message: stored whatever chats holds
CreateMessage(ms, cs, msg) == Append(ms, msg)

\* MemStorage.createMessage, the chat: updatedAt is set if the chat is stored
TouchChat(cs, chatId, t) ==
    [i \in 1..Len(cs) |->
        IF cs[i].id = chatId THEN [cs[i] EXCEPT !.updatedAt = t] ELSE cs[i]]

----------------------------------------------------------------------------
(* routes.ts: logout, /api/auth/me and the chat endpoints.  With           *)
(* MemStorage no call of these handlers waits for anything outside the     *)
(* process, so each runs from request to response without interleaving.    *)

MsgFetchedChats == <<"User fetched chats">>
MsgCreatedChat == <<"User created chat">>

\* a chat id that no createChat ever returned
UnknownChat == 0

\* the chat ids a client can put in the URL: those the server has handed
\* out, and one it never did
ChatIds == (1..MaxChats) \cup {UnknownChat}
Titles == {<<>>, <<"t">>}
Contents == {<<>>, <<"m">>}
Types == {"", "user"}

\* chatId is UnknownChat or an id that createChat has returned
Known(chatId) == chatId = UnknownChat \/ chatId < ids.chat

NoLast == [op |-> "", status |-> 0, error |-> "", chatId |-> 0, userId |-> 0, result |-> <<>>]

Answer(op, status, error, chatId, userId, result) ==
    [op |-> op, status |-> status, error |-> error, chatId |-> chatId,
     userId |-> userId, result |-> result]

\* the 401 every protected handler sends when the session has no userId
NotAuthenticated(op, chatId) == Answer(op, 401, "Not authenticated", chatId, 0, <<>>)

\* a session check that lets every request through
AuthenticatedAlways(s) == TRUE

\* if (!userId) is not taken
Authenticated(s) == s # 0

\* req.session?.userId ? (await storage.getUser(userId))?.username
UsernameOf(us, userId) ==
    IF GetUser(us, userId) = {} THEN <<>> ELSE (CHOOSE u \in GetUser(us, userId) : TRUE).username

\* the clock does not run backwards; it is followed up to MaxClock
Tick ==
    /\ now < MaxClock
    /\ now' = now + 1
    /\ UNCHANGED <<build, logs, nextId, settings, users, session, reply, logsView, gen, saves,
                   auth, chats, messages, ids, last>>
    /\ UNCHANGED extVars

\* POST /api/auth/logout; destroyOk is whether the store destroys the session
Logout(destroyOk) ==
    /\ IF destroyOk
       THEN /\ session' = DestroySession(session)
            /\ last' = Answer("logout", 200, "", 0, 0, <<>>)
       ELSE /\ session' = session
            /\ last' = Answer("logout", 500, "Logout failed", 0, 0, <<>>)
    /\ UNCHANGED <<build, logs, nextId, settings, users, reply, logsView, gen, saves,
                   auth, chats, messages, ids, now>>
    /\ UNCHANGED extVars

\* GET /api/auth/me
Me ==
    /\ last' = IF ~Authenticated(session) THEN NotAuthenticated("me", 0)
               ELSE IF GetUser(users, session) = {}
               THEN Answer("me", 401, "User not found", 0, 0, <<>>)
               ELSE Answer("me", 200, "", 0, session, <<>>)
    /\ UNCHANGED <<build, logs, nextId, settings, users, session, reply, logsView, gen, saves,
                   auth, chats, messages, ids, now>>
    /\ UNCHANGED extVars

\* GET /api/chats
ListChats ==
    /\ build = "routes"
    /\ IF ~Authenticated(session)
       THEN /\ last' = NotAuthenticated("listChats", 0)
            /\ UNCHANGED <<logs, nextId>>
       ELSE LET found == GetUserChats(chats, session)
            IN  /\ nextId <= MaxChatLogs
                /\ logs' = AddLog(logs, LogEntry(nextId, "info", MsgFetchedChats,
                                                 Data(<<>>, Len(found)),
                                                 UsernameOf(users, session), "fetch_chats"))
                /\ nextId' = nextId + 1
                /\ last' = Answer("listChats", 200, "", 0, session, found)
    /\ UNCHANGED <<build, settings, users, session, reply, logsView, gen, saves,
                   auth, chats, messages, ids, now>>
    /\ UNCHANGED extVars

\* POST /api/chats
CreateChatReq(title) ==
    /\ build = "routes"
    /\ IF ~Authenticated(session)
       THEN /\ last' = NotAuthenticated("createChat", 0)
            /\ UNCHANGED <<logs, nextId, chats, ids>>
       ELSE /\ ids.chat <= MaxChats
            /\ nextId <= MaxChatLogs
            /\ chats' = CreateChat(chats, ids.chat, session, title, now)
            /\ ids' = [ids EXCEPT !.chat = @ + 1]
            /\ logs' = AddLog(logs, LogEntry(nextId, "info", MsgCreatedChat,
                                             Data(title, ids.chat),
                                             UsernameOf(users, session), "create_chat"))
            /\ nextId' = nextId + 1
            /\ last' = Answer("createChat", 200, "", ids.chat, session,
                              <<Chat(ids.chat, session, title, now, now)>>)
    /\ UNCHANGED <<build, settings, users, session, reply, logsView, gen, saves,
                   auth, messages, now>>
    /\ UNCHANGED extVars

\* GET /api/chats/:chatId/messages
ListMessages(chatId) ==
    /\ build = "routes"
    /\ Known(chatId)
    /\ last' = IF ~Authenticated(session) THEN NotAuthenticated("listMessages", chatId)
               ELSE Answer("listMessages", 200, "", chatId, session,
                           GetChatMessages(messages, chatId))
    /\ UNCHANGED <<build, logs, nextId, settings, users, session, reply, logsView, gen, saves,
                   auth, chats, messages, ids, now>>
    /\ UNCHANGED extVars

\* POST /api/chats/:chatId/messages; elapsed is the time that passes between
\* the two new Date() calls of createMessage
CreateMessageReq(chatId, content, type, elapsed) ==
    /\ build = "routes"
    /\ Known(chatId)
    /\ IF ~Authenticated(session)
       THEN /\ last' = NotAuthenticated("createMessage", chatId)
            /\ UNCHANGED <<chats, messages, ids, now>>
       ELSE IF content = <<>> \/ type = ""
       THEN /\ last' = Answer("createMessage", 400, "Content and type required", chatId, 0, <<>>)
            /\ UNCHANGED <<chats, messages, ids, now>>
       ELSE LET msg == Message(ids.msg, chatId, content, type, now)
            IN  /\ ids.msg <= MaxMessages
                /\ now + elapsed <= MaxClock
                /\ messages' = CreateMessage(messages, chats, msg)
                /\ chats' = TouchChat(chats, chatId, now + elapsed)
                /\ ids' = [ids EXCEPT !.msg = @ + 1]
                /\ now' = now + elapsed
                /\ last' = Answer("createMessage", 200, "", chatId, session, <<msg>>)
    /\ UNCHANGED <<build, logs, nextId, settings, users, session, reply, logsView, gen, saves,
                   auth>>
    /\ UNCHANGED extVars

\* PUT /api/chats/:chatId
RenameChat(chatId, title) ==
    /\ build = "routes"
    /\ Known(chatId)
    /\ IF ~Authenticated(session)
       THEN /\ last' = NotAuthenticated("renameChat", chatId)
            /\ UNCHANGED chats
       ELSE IF title = <<>>
       THEN /\ last' = Answer("renameChat", 400, "Title required", chatId, 0, <<>>)
            /\ UNCHANGED chats
       ELSE /\ chats' = UpdateChat(chats, chatId, title, now)
            /\ last' = Answer("renameChat", 200, "", chatId, session,
                              SelectSeq(chats', LAMBDA c : c.id = chatId))
    /\ UNCHANGED <<build, logs, nextId, settings, users, session, reply, logsView, gen, saves,
                   auth, messages, ids, now>>
    /\ UNCHANGED extVars

\* DELETE /api/chats/:chatId
DeleteChatReq(chatId) ==
    /\ build = "routes"
    /\ Known(chatId)
    /\ IF ~Authenticated(session)
       THEN /\ last' = NotAuthenticated("deleteChat", chatId)
            /\ UNCHANGED <<chats, messages>>
       ELSE /\ messages' = DeleteChatMessages(messages, chatId)
            /\ chats' = DeleteChat(chats, chatId)
            /\ last' = Answer("deleteChat", 200, "", chatId, session, <<>>)
    /\ UNCHANGED <<build, logs, nextId, settings, users, session, reply, logsView, gen, saves,
                   auth, ids, now>>
    /\ UNCHANGED extVars

----------------------------------------------------------------------------
(* The chat store and the request slots as the server starts *)

----------------------------------------------------------------------------
(* storage.ts: DatabaseStorage, the settings table.  A table is the        *)
(* sequence of its rows in insertion order.  Every query is awaited, so a  *)
(* method with two queries can be overtaken between them by another call.  *)

UpsertSlots == 1..MaxUpserts

SettingValues == {UrlA, UrlB}

\* a row of the settings table
SettingRow(key, value) == [key |-> key, value |-> value]

\* DatabaseStorage.getSettingByKey: the rows with that key
DbGetSettingByKey(rows, key) == {rows[i] : i \in {j \in 1..Len(rows) : rows[j].key = key}}

\* DatabaseStorage.getSettingByKey(key)?.value
DbGetSettingValue(rows, key) ==
    IF DbGetSettingByKey(rows, key) = {} THEN <<>>
    ELSE (CHOOSE r \in DbGetSettingByKey(rows, key) : TRUE).value

\* db.update(settings).set({ value }).where(eq(settings.key, key))
DbUpdateSetting(rows, key, value) ==
    [i \in 1..Len(rows) |->
        IF rows[i].key = key THEN [rows[i] EXCEPT !.value = value] ELSE rows[i]]

\* db.insert(settings).values({ key, value }); key is declared unique, so
\* the insert is refused when a row with that key exists
DbInsertSetting(rows, key, value) == Append(rows, SettingRow(key, value))

\* an upsertSetting call of DatabaseStorage: where it is and what it saw
NoUpsert == [pc |-> "idle", key |-> "", value |-> <<>>, existing |-> FALSE, ok |-> FALSE]

\* MemStorage.upsertSetting(key, value), one synchronous step
MemUpsertCall(key, value) ==
    /\ settings' = UpsertSetting(settings, key, value)
    /\ call' = [call EXCEPT !.memLast[key] = value,
                            !.repeatChanged = \/ @
                                              \/ /\ GetSettingValue(settings, key) = value
                                                 /\ settings' # settings]
    /\ UNCHANGED <<build, logs, nextId, users, session, reply, logsView, gen, saves,
                   appVars, db, client>>

\* DatabaseStorage.upsertSetting up to the answer of its select
DbUpsertStart(s, key, value) ==
    /\ call.upserts[s].pc = "idle"
    /\ IF s = 1 THEN TRUE ELSE call.upserts[s - 1].pc # "idle"
    /\ call' = [call EXCEPT !.upserts[s] =
                    [pc |-> "selected", key |-> key, value |-> value,
                     existing |-> DbGetSettingByKey(db.settings, key) # {}, ok |-> FALSE]]
    /\ UNCHANGED <<build, logs, nextId, settings, users, session, reply, logsView, gen, saves,
                   appVars, db, client>>

\* DatabaseStorage.upsertSetting from the select to its return or throw
DbUpsertDone(s) ==
    /\ call.upserts[s].pc = "selected"
    /\ LET u == call.upserts[s]
           refused == ~u.existing /\ DbGetSettingByKey(db.settings, u.key) # {}
           rows == IF u.existing THEN DbUpdateSetting(db.settings, u.key, u.value)
                   ELSE IF refused THEN db.settings
                   ELSE DbInsertSetting(db.settings, u.key, u.value)
       IN  /\ db' = [db EXCEPT !.settings = rows]
           /\ call' = [call EXCEPT
                  !.upserts[s] = [u EXCEPT !.pc = "done", !.ok = ~refused],
                  !.dbLast[u.key] = IF refused THEN @ ELSE u.value,
                  !.repeatChanged = \/ @
                                    \/ /\ ~refused
                                       /\ DbGetSettingValue(db.settings, u.key) = u.value
                                       /\ rows # db.settings]
    /\ UNCHANGED <<build, logs, nextId, settings, users, session, reply, logsView, gen, saves,
                   appVars, client>>

----------------------------------------------------------------------------
(* storage.ts: DatabaseStorage, users, chats and messages, and the calls   *)
(* of the storage contract made on both backends in step.  Both backends   *)
(* draw ids from randomUUID / gen_random_uuid(), modelled by one counter, *)
(* and read one clock.                                                     *)

Bob == <<"b", "o", "b">>

UserIds == 1..MaxUsers

\* what a storage call returned: value is a sequence, empty for undefined
Returned(v) == [ok |-> TRUE, value |-> v]

\* the call rejected (the query failed)
Threw == [ok |-> FALSE, value |-> <<>>]

\* the orders in which rows can stand
Perms(rows) ==
    LET n == Len(rows)
    IN  {[k \in 1..n |-> rows[f[k]]] :
            f \in {g \in [1..n -> 1..n] : \A i \in 1..n, j \in 1..n : g[i] = g[j] => i = j}}

\* .orderBy(messages.createdAt): rows of equal createdAt come in any order
DbOrderByCreatedAt(rows) ==
    {s \in Perms(rows) :
        \A i \in 1..Len(s), j \in 1..Len(s) : i < j => s[i].createdAt <= s[j].createdAt}

\* .orderBy(desc(chats.updatedAt)): rows of equal updatedAt come in any order
DbOrderByUpdatedAtDesc(rows) ==
    {s \in Perms(rows) :
        \A i \in 1..Len(s), j \in 1..Len(s) : i < j => s[i].updatedAt >= s[j].updatedAt}

\* DatabaseStorage.getChatMessages: the results the query can give
DbGetChatMessages(rows, chatId) ==
    DbOrderByCreatedAt(SelectSeq(rows, LAMBDA m : m.chatId = chatId))

\* DatabaseStorage.getUserChats: the results the query can give
DbGetUserChats(rows, userId) ==
    DbOrderByUpdatedAtDesc(SelectSeq(rows, LAMBDA c : c.userId = userId))

\* MemStorage.deleteChat: return this.chats.delete(chatId)
Deleted(cs, chatId) == IF GetChat(cs, chatId) # {} THEN <<"true">> ELSE <<"false">>

\* DatabaseStorage.deleteChat: return true
DbDeleted(cs, chatId) == <<"true">>

\* updateChat of either backend: the updated chat, or undefined
Updated(cs, chatId, title, t) ==
    IF GetChat(cs, chatId) = {} THEN <<>>
    ELSE <<[(CHOOSE c \in GetChat(cs, chatId) : TRUE) EXCEPT !.title = title, !.updatedAt = t]>>

\* the chat each user was last active in, after an append to or a rename of
\* chat chatId (0 = not known)
Active(recent, cs, chatId) ==
    [u \in UserIds |->
        IF \E c \in GetChat(cs, chatId) : c.userId = u THEN chatId ELSE recent[u]]

\* createUser on both backends, called as the register handlers call it:
\* after getUserByUsername found nobody; users.username is unique in the
\* database
StoreCreateUser(username) ==
    /\ Cardinality(users) < MaxUsers
    /\ GetUserByUsername(users, username) = {}
    /\ LET hash == BcryptHash(Secret)
           refused == GetUserByUsername(db.users, username) # {}
       IN  /\ users' = CreateUser(users, username, hash)
           /\ db' = [db EXCEPT !.users = IF refused THEN @ ELSE CreateUser(@, username, hash)]
           /\ call' = [call EXCEPT
                  !.op = "createUser",
                  !.mem = Returned(<<[id |-> Cardinality(users) + 1, username |-> username,
                                      password |-> hash]>>),
                  !.db = IF refused THEN Threw
                         ELSE Returned(<<[id |-> Cardinality(db.users) + 1,
                                          username |-> username, password |-> hash]>>)]
    /\ UNCHANGED <<build, logs, nextId, settings, session, reply, logsView, gen, saves,
                   appVars, client>>

\* createChat on both backends, called as POST /api/chats calls it: for
\* the user of a session; chats.user_id references users.id
StoreCreateChat(userId, title) ==
    /\ ids.chat <= MaxChats
    /\ GetUser(users, userId) # {}
    /\ LET chat == Chat(ids.chat, userId, title, now, now)
           refused == GetUser(db.users, userId) = {}
       IN  /\ chats' = CreateChat(chats, ids.chat, userId, title, now)
           /\ db' = [db EXCEPT !.chats = IF refused THEN @ ELSE Append(@, chat)]
           /\ call' = [call EXCEPT !.recent[userId] = ids.chat,
                                   !.op = "createChat",
                                   !.mem = Returned(<<chat>>),
                                   !.db = IF refused THEN Threw ELSE Returned(<<chat>>)]
    /\ ids' = [ids EXCEPT !.chat = @ + 1]
    /\ UNCHANGED <<build, logs, nextId, settings, users, session, reply, logsView, gen, saves,
                   auth, messages, now, last, client>>

\* updateChat on both backends
StoreUpdateChat(chatId, title) ==
    /\ Known(chatId)
    /\ chats' = UpdateChat(chats, chatId, title, now)
    /\ db' = [db EXCEPT !.chats = UpdateChat(@, chatId, title, now)]
    /\ call' = [call EXCEPT !.recent = Active(@, chats, chatId),
                            !.op = "updateChat",
                            !.mem = Returned(Updated(chats, chatId, title, now)),
                            !.db = Returned(Updated(db.chats, chatId, title, now))]
    /\ UNCHANGED <<build, logs, nextId, settings, users, session, reply, logsView, gen, saves,
                   auth, messages, ids, now, last, client>>

\* deleteChat on both backends
StoreDeleteChat(chatId) ==
    /\ Known(chatId)
    /\ messages' = DeleteChatMessages(messages, chatId)
    /\ chats' = DeleteChat(chats, chatId)
    /\ db' = [db EXCEPT !.messages = DeleteChatMessages(@, chatId),
                        !.chats = DeleteChat(@, chatId)]
    /\ call' = [call EXCEPT !.recent = [u \in UserIds |-> IF @[u] = chatId THEN 0 ELSE @[u]],
                            !.op = "deleteChat",
                            !.mem = Returned(Deleted(chats, chatId)),
                            !.db = Returned(DbDeleted(db.chats, chatId))]
    /\ UNCHANGED <<build, logs, nextId, settings, users, session, reply, logsView, gen, saves,
                   auth, ids, now, last, client>>

\* createMessage on both backends; messages.chat_id references chats.id
StoreCreateMessage(chatId, content) ==
    /\ Known(chatId)
    /\ ids.msg <= MaxMessages
    /\ LET msg == Message(ids.msg, chatId, content, "user", now)
           refused == GetChat(db.chats, chatId) = {}
       IN  /\ messages' = CreateMessage(messages, chats, msg)
           /\ chats' = TouchChat(chats, chatId, now)
           /\ db' = [db EXCEPT !.messages = IF refused THEN @ ELSE Append(@, msg),
                               !.chats = IF refused THEN @ ELSE TouchChat(@, chatId, now)]
           /\ call' = [call EXCEPT !.recent = Active(@, chats, chatId),
                                   !.op = "createMessage",
                                   !.mem = Returned(<<msg>>),
                                   !.db = IF refused THEN Threw ELSE Returned(<<msg>>)]
    /\ ids' = [ids EXCEPT !.msg = @ + 1]
    /\ UNCHANGED <<build, logs, nextId, settings, users, session, reply, logsView, gen, saves,
                   auth, now, last, client>>

\* getChatMessages on both backends
StoreGetChatMessages(chatId) ==
    /\ Known(chatId)
    /\ \E rows \in DbGetChatMessages(db.messages, chatId) :
           call' = [call EXCEPT !.op = "getChatMessages",
                                !.mem = Returned(GetChatMessages(messages, chatId)),
                                !.db = Returned(rows)]
    /\ UNCHANGED <<build, logs, nextId, settings, users, session, reply, logsView, gen, saves,
                   appVars, db, client>>

\* getUserChats on both backends
StoreGetUserChats(userId) ==
    /\ \E rows \in DbGetUserChats(db.chats, userId) :
           call' = [call EXCEPT !.op = "getUserChats",
                                !.mem = Returned(GetUserChats(chats, userId)),
                                !.db = Returned(rows)]
    /\ UNCHANGED <<build, logs, nextId, settings, users, session, reply, logsView, gen, saves,
                   appVars, db, client>>

----------------------------------------------------------------------------
(* The browser client: App (checkAuth, guest mode) and the Home page with  *)
(* handleSubmit and chatMutation.  A handleSubmit call runs up to its next *)
(* await in one step; the server handles a request in the step in which    *)
(* the client's fetch resolves.                                            *)

SubmitSlots == 1..MaxSubmits

\* a handleSubmit call: where it is, and its local chatId
NoSubmit == [pc |-> "idle", chatId |-> 0]

\* App while checkAuth runs; inFlight holds the /api/generate requests of
\* chatMutation that have not settled, sent counts the chat and message
\* requests the client has issued
NoClient == [view |-> "loading", isGuest |-> FALSE, currentUser |-> 0, currentChatId |-> 0,
             pending |-> FALSE, submits |-> [i \in SubmitSlots |-> NoSubmit],
             inFlight |-> {}, mutations |-> 0, sent |-> 0, shown |-> 0]

\* the client stores chats for everyone, guests too
MayStoreAlways(c) == TRUE

\* !isGuest && currentUser, the test before every chat or message request
MayStore(c) == ~c.isGuest /\ c.currentUser # 0

\* chatMutation.mutate(prompt): a new /api/generate request is in flight
Mutate(c) ==
    [c EXCEPT !.pending = TRUE, !.mutations = @ + 1, !.inFlight = @ \cup {c.mutations + 1}]

\* App.checkAuth: GET /api/auth/me; fetched is whether the request got through
CheckAuth(fetched) ==
    /\ client.view = "loading"
    /\ client' = IF fetched /\ Authenticated(session) /\ GetUser(users, session) # {}
                 THEN [client EXCEPT !.view = "home", !.currentUser = session]
                 ELSE [client EXCEPT !.view = "login"]
    /\ UNCHANGED <<build, logs, nextId, settings, users, session, reply, logsView, gen, saves,
                   appVars, db, call>>

\* App.handleContinueAsGuest, from the login page
ContinueAsGuest ==
    /\ client.view = "login"
    /\ client' = [client EXCEPT !.view = "home", !.isGuest = TRUE, !.currentUser = 0]
    /\ UNCHANGED <<build, logs, nextId, settings, users, session, reply, logsView, gen, saves,
                   appVars, db, call>>

\* handleSubmit with a non-empty message, up to its first await (the POST
\* /api/chats or the POST of the user message) or, without one, to its end
Submit(i) ==
    /\ client.view = "home"
    /\ client.submits[i].pc = "idle"
    /\ IF i = 1 THEN TRUE ELSE client.submits[i - 1].pc # "idle"
    /\ client' =
           IF client.pending
           THEN [client EXCEPT !.submits[i].pc = "done"]
           ELSE IF MayStore(client) /\ client.currentChatId = 0
           THEN [client EXCEPT !.submits[i].pc = "creating", !.sent = @ + 1]
           ELSE IF MayStore(client) /\ client.currentChatId # 0
           THEN [client EXCEPT !.submits[i] = [pc |-> "saving", chatId |-> client.currentChatId],
                               !.shown = @ + 1, !.sent = @ + 1]
           ELSE Mutate([client EXCEPT !.submits[i].pc = "done", !.shown = @ + 1])
    /\ UNCHANGED <<build, logs, nextId, settings, users, session, reply, logsView, gen, saves,
                   appVars, db, call>>

\* POST /api/chats is handled and handleSubmit goes on from its response to
\* the POST of the user message; fetched is whether the request got through
ChatCreated(i, fetched) ==
    /\ client.submits[i].pc = "creating"
    /\ IF fetched /\ Authenticated(session)
       THEN /\ chats' = CreateChat(chats, ids.chat, session, <<"Chat">>, now)
            /\ ids' = [ids EXCEPT !.chat = @ + 1]
            /\ logs' = AddLog(logs, LogEntry(nextId, "info", MsgCreatedChat,
                                             Data(<<"Chat">>, ids.chat),
                                             UsernameOf(users, session), "create_chat"))
            /\ nextId' = nextId + 1
            /\ client' = [client EXCEPT
                   !.currentChatId = ids.chat,
                   !.submits[i] = [pc |-> "saving", chatId |-> ids.chat],
                   !.shown = @ + 1, !.sent = @ + 1]
       ELSE /\ client' = [client EXCEPT !.submits[i].pc = "done"]
            /\ UNCHANGED <<chats, ids, logs, nextId>>
    /\ UNCHANGED <<build, settings, users, session, reply, logsView, gen, saves,
                   auth, messages, now, last, db, call>>

\* POST /api/chats/:chatId/messages with the user message is handled, and
\* handleSubmit goes on to chatMutation.mutate and its end
MessageSaved(i, fetched) ==
    /\ client.submits[i].pc = "saving"
    /\ LET chatId == client.submits[i].chatId
           msg == Message(ids.msg, chatId, <<"m">>, "user", now)
       IN  IF fetched /\ Authenticated(session)
           THEN /\ messages' = CreateMessage(messages, chats, msg)
                /\ chats' = TouchChat(chats, chatId, now)
                /\ ids' = [ids EXCEPT !.msg = @ + 1]
           ELSE UNCHANGED <<messages, chats, ids>>
    /\ client' = Mutate([client EXCEPT !.submits[i].pc = "done"])
    /\ UNCHANGED <<build, logs, nextId, settings, users, session, reply, logsView, gen, saves,
                   auth, now, last, db, call>>

\* an /api/generate request of chatMutation settles; onSuccess shows the
\* answer and posts it to the current chat, onError only shows a toast
GenerateSettled(m, ok, fetched) ==
    /\ m \in client.inFlight
    /\ LET stores == ok /\ MayStore(client) /\ client.currentChatId # 0
           msg == Message(ids.msg, client.currentChatId, <<"a">>, "ai", now)
       IN  /\ client' = [client EXCEPT
                  !.inFlight = @ \ {m},
                  !.pending = IF m = client.mutations THEN FALSE ELSE @,
                  !.shown = IF ok THEN @ + 1 ELSE @,
                  !.sent = IF stores THEN @ + 1 ELSE @]
           /\ IF stores /\ fetched /\ Authenticated(session)
              THEN /\ messages' = CreateMessage(messages, chats, msg)
                   /\ chats' = TouchChat(chats, client.currentChatId, now)
                   /\ ids' = [ids EXCEPT !.msg = @ + 1]
              ELSE UNCHANGED <<messages, chats, ids>>
    /\ UNCHANGED <<build, logs, nextId, settings, users, session, reply, logsView, gen, saves,
                   auth, now, last, db, call>>

\* an empty database
NoDb == [settings |-> <<>>, users |-> {}, chats |-> <<>>, messages |-> <<>>]

\* no storage call made yet
NoCall == [upserts |-> [s \in UpsertSlots |-> NoUpsert],
           memLast |-> [k \in SettingKeys |-> <<>>],
           dbLast |-> [k \in SettingKeys |-> <<>>],
           repeatChanged |-> FALSE,
           recent |-> [u \in UserIds |-> 0],
           op |-> "", mem |-> Returned(<<>>), db |-> Returned(<<>>)]

InitApp ==
    /\ auth = [r \in Slots |-> NoAuth]
    /\ chats = <<>>
    /\ messages = <<>>
    /\ ids = [chat |-> 1, msg |-> 1]
    /\ now = 0
    /\ last = NoLast
    /\ db = NoDb
    /\ call = NoCall
    /\ client = NoClient

----------------------------------------------------------------------------
(* The relay behaviours: either server, one /api/generate request from its  *)
(* arrival to its response, against an upstream that may answer, fail or   *)
(* stay silent, with settings saves before, during and after it.  The      *)
(* handler keeps nothing between requests but the log and the settings.    *)

Init ==
    /\ build \in {"routes", "prod"}
    /\ logs = <<>>
    /\ nextId = 1
    /\ settings = [k \in SettingKeys |-> <<>>]
    /\ users = {}
    /\ session = 0
    /\ reply = NoReply
    /\ logsView = NoView
    /\ gen = NoGen
    /\ saves = 0
    /\ InitApp

Next ==
    \/ \E p \in Prompts, h \in Histories, o \in Overrides : GenerateReceive(p, h, o)
    \/ \E found \in BOOLEAN : SearchDone(found)
    \/ \E k \in FetchResponses : FetchResponds(k)
    \/ \E b \in BodyOutcomes : BodyArrives(b)
    \/ \E k \in FetchRejections : FetchFails(k)
    \/ TimerFires
    \/ \E u \in SavedUrls : SaveNgrokUrl(u)
    \/ \E p \in Prompts, h \in Histories, o \in Overrides : ProdGenerateReceive(p, h, o)
    \/ \E k \in FetchResponses : ProdFetchResponds(k)
    \/ \E b \in BodyOutcomes : ProdBodyArrives(b)
    \/ \E k \in FetchRejections : ProdFetchFails(k)
    \/ \E u \in SavedUrls : ProdSaveNgrokUrl(u)

Spec == Init /\ [][Next]_vars

----------------------------------------------------------------------------
(* The relay of routes.ts under the scheduling the runtime gives it: an    *)
(* armed abort timer fires unless it is cleared first, and searchWeb       *)
(* settles because its fetch carries AbortSignal.timeout(10000).  Nothing  *)
(* is assumed of the upstream: it may answer, fail, or stay silent before  *)
(* or after its headers.                                                   *)

InitRelay == Init /\ build = "routes"

NextRelay ==
    \/ \E p \in Prompts, h \in Histories, o \in Overrides : GenerateReceive(p, h, o)
    \/ \E found \in BOOLEAN : SearchDone(found)
    \/ \E k \in FetchResponses : FetchResponds(k)
    \/ \E b \in BodyOutcomes : BodyArrives(b)
    \/ \E k \in FetchRejections : FetchFails(k)
    \/ TimerFires
    \/ \E u \in SavedUrls : SaveNgrokUrl(u)

\* SearchDone is enabled exactly while the request awaits searchWeb, so weak
\* fairness of it says that the request does not await searchWeb for ever
SearchSettles == []<>(gen.pc # "awaitSearch")

SpecRelay ==
    /\ InitRelay
    /\ [][NextRelay]_vars
    /\ WF_vars(TimerFires)
    /\ SearchSettles

----------------------------------------------------------------------------
(* The log behaviours: the auth and diagnostic handlers of routes.ts over   *)
(* a buffer that starts empty or one entry short of its capacity           *)

InitLog ==
    /\ build = "routes"
    /\ \E n \in StartSizes : logs = Prefill(n) /\ nextId = n + 1
    /\ settings = [k \in SettingKeys |-> <<>>]
    /\ users = {}
    /\ session = 0
    /\ reply = NoReply
    /\ logsView = NoView
    /\ gen = NoGen
    /\ saves = 0
    /\ InitApp

NextLog ==
    \/ TestEndpoint
    \/ \E u \in Usernames, p \in Passwords, ok \in BOOLEAN : Register(u, p, ok)
    \/ \E u \in Usernames, p \in Passwords, ok \in BOOLEAN : Login(u, p, ok)
    \/ \E n \in Limits : GetLogsCall(n)
    \/ \E n \in Limits : GetErrorsCall(n)

SpecLog == InitLog /\ [][NextLog]_vars

----------------------------------------------------------------------------
(* The chat behaviours: one client of routes.ts that registers, calls the  *)
(* chat endpoints and logs out, while the clock advances                   *)

InitChat ==
    /\ build = "routes"
    /\ logs = <<>>
    /\ nextId = 1
    /\ settings = [k \in SettingKeys |-> <<>>]
    /\ users = {}
    /\ session = 0
    /\ reply = NoReply
    /\ logsView = NoView
    /\ gen = NoGen
    /\ saves = 0
    /\ InitApp

NextChat ==
    \/ \E ok \in BOOLEAN : Register(Alice, Secret, ok)
    \/ \E ok \in BOOLEAN : Logout(ok)
    \/ Tick
    \/ ListChats
    \/ \E t \in Titles : CreateChatReq(t)
    \/ \E c \in ChatIds : ListMessages(c)
    \/ \E c \in ChatIds, m \in Contents, ty \in Types, e \in 0..1 : CreateMessageReq(c, m, ty, e)
    \/ \E c \in ChatIds, t \in Titles : RenameChat(c, t)
    \/ \E c \in ChatIds : DeleteChatReq(c)

SpecChat == InitChat /\ [][NextChat]_vars

----------------------------------------------------------------------------
(* The settings behaviours: upsertSetting calls on either backend, those   *)
(* of the database interleaving between their two queries                  *)

NextSettings ==
    \/ \E k \in SettingKeys, v \in SettingValues : MemUpsertCall(k, v)
    \/ \E s \in UpsertSlots, k \in SettingKeys, v \in SettingValues : DbUpsertStart(s, k, v)
    \/ \E s \in UpsertSlots : DbUpsertDone(s)

SpecSettings == InitChat /\ [][NextSettings]_vars

----------------------------------------------------------------------------
(* The storage behaviours: one sequence of calls of the storage contract,  *)
(* each made on MemStorage and on DatabaseStorage before the next          *)

NextStore ==
    \/ \E u \in {Alice, Bob} : StoreCreateUser(u)
    \/ \E u \in UserIds : StoreCreateChat(u, <<"t">>)
    \/ \E c \in ChatIds : StoreUpdateChat(c, <<"t", "2">>)
    \/ \E c \in ChatIds : StoreDeleteChat(c)
    \/ \E c \in ChatIds : StoreCreateMessage(c, <<"m">>)
    \/ \E c \in ChatIds : StoreGetChatMessages(c)
    \/ \E u \in UserIds : StoreGetUserChats(u)
    \/ Tick

SpecStore == InitChat /\ [][NextStore]_vars

----------------------------------------------------------------------------
(* The behaviours of two users: each registers, which makes the session    *)
(* theirs, and the chat endpoints are called on that session.  The client  *)
(* sends a registration when it has none in flight.                        *)

NextOwner ==
    \/ \E r \in Slots, u \in {Alice, Bob} :
           /\ \A s \in Slots : auth[s].pc \in {"idle", "done"}
           /\ RegisterStart(r, u, Secret)
    \/ \E r \in Slots : RegisterHashed(r)
    \/ \E r \in Slots : SessionSaved(r, TRUE)
    \/ Logout(TRUE)
    \/ CreateChatReq(<<"t">>)
    \/ \E c \in ChatIds : ListMessages(c)
    \/ \E c \in ChatIds : CreateMessageReq(c, <<"m">>, "user", 0)
    \/ \E c \in ChatIds : RenameChat(c, <<"r">>)
    \/ \E c \in ChatIds : DeleteChatReq(c)

SpecOwner == InitChat /\ [][NextOwner]_vars

----------------------------------------------------------------------------
(* The client behaviours: a user may have registered before the page       *)
(* loads; the page checks the session, the visitor may go on as a guest,   *)
(* and submits messages, also while an earlier submit is still waiting     *)

NextClient ==
    \/ Register(Alice, Secret, TRUE)
    \/ \E f \in BOOLEAN : CheckAuth(f)
    \/ ContinueAsGuest
    \/ \E i \in SubmitSlots : Submit(i)
    \/ \E i \in SubmitSlots, f \in BOOLEAN : ChatCreated(i, f)
    \/ \E i \in SubmitSlots, f \in BOOLEAN : MessageSaved(i, f)
    \/ \E m \in 1..MaxSubmits, ok \in BOOLEAN, f \in BOOLEAN : GenerateSettled(m, ok, f)
    \/ Tick

SpecClient == InitChat /\ [][NextClient]_vars

----------------------------------------------------------------------------
(* The auth behaviours: either server, MaxReqs register and login requests *)
(* for one username that interleave at their awaits, with logout and       *)
(* /api/auth/me                                                            *)

NextAuth ==
    \/ \E r \in Slots, p \in {<<>>, Secret} : RegisterStart(r, Alice, p)
    \/ \E r \in Slots : RegisterHashed(r)
    \/ \E r \in Slots, p \in Passwords : LoginStart(r, Alice, p)
    \/ \E r \in Slots : LoginCompared(r)
    \/ \E r \in Slots, p \in {<<>>, Secret} : ProdRegister(r, Alice, p)
    \/ \E r \in Slots, p \in Passwords : ProdLogin(r, Alice, p)
    \/ \E r \in Slots, ok \in BOOLEAN : SessionSaved(r, ok)
    \/ \E ok \in BOOLEAN : Logout(ok)
    \/ Me

SpecAuth == Init /\ [][NextAuth]_vars

----------------------------------------------------------------------------
(* Properties of the relay, checked under Spec *)

\* how an upstream failure of the finished request is classified
FailureKind(g) ==
    IF g.upstream = "abort" THEN "timeout"
    ELSE IF g.upstream = "network" THEN "network"
    ELSE IF g.upstream = "bad-status" /\ g.body # "stream-error" THEN "bad-status"
    ELSE IF g.upstream = "ok-html" /\ g.body # "stream-error" THEN "non-json"
    ELSE "none"

\* C1: a 2xx upstream response whose content-type is not JSON is never handed
\* to response.json(), and the request does not end with the generic
\* 'Failed to process AI request' 500.
C1_NonJsonNeverParsed ==
    gen.upstream = "ok-html" =>
        /\ ~gen.parsed
        /\ gen.pc = "done" /\ gen.body # "stream-error" => gen.response # RespGeneric

\* C2: a finished request that met an upstream failure (bad status, non-JSON
\* body, timeout, network failure) is never answered with the generic
\* internal-error response; a timeout is answered 408 and a network failure 503.
C2_FailureKindsDistinct ==
    gen.pc = "done" /\ FailureKind(gen) # "none" =>
        /\ gen.response # RespGeneric
        /\ gen.response.status # 200
        /\ FailureKind(gen) = "timeout" => gen.response.status = 408
        /\ FailureKind(gen) = "network" => gen.response.status = 503
        /\ FailureKind(gen) \in {"bad-status", "non-json"} => gen.response.status \notin {408, 503}

\* C3: while the outbound call is outstanding the abort timer is armed, and
\* once it has fired the request is finished with the 408 timeout response.
C3_TimeoutAborts ==
    /\ gen.pc = "awaitFetch" => gen.timer = "armed"
    /\ gen.timer = "fired" => gen.pc = "done" /\ gen.response = RespTimeout

\* C4: the URL the upstream call goes to is the per-request override if
\* present, otherwise the saved ngrok_url setting if there is one, otherwise
\* the hardcoded fallback.
C4_UrlPrecedence ==
    gen.calls >= 1 =>
        /\ gen.ngrokUrl # <<>> => gen.fullUrl = gen.ngrokUrl \o <<"/api/generate">>
        /\ gen.ngrokUrl = <<>> /\ gen.savedNgrokUrl # <<>> =>
               gen.fullUrl = gen.savedNgrokUrl \o <<"/api/generate">>
        /\ gen.ngrokUrl = <<>> /\ gen.savedNgrokUrl = <<>> =>
               gen.fullUrl = FallbackUrl \o <<"/api/generate">>

\* the text a history entry must appear as: its role label, then its content
Labelled(msg) == <<IF msg.type = "user" THEN "Human" ELSE "Assistant", ": ">> \o msg.content

\* sent ends with prompt, and before that holds every history entry labelled
\* by its role, each after the one before it
HoldsHistoryThenPrompt(sent, history, prompt) ==
    LET n == Len(history)
        tail == Len(sent) - Len(prompt) + 1
    IN  /\ MatchesAt(sent, prompt, tail)
        /\ \A i \in 1..n :
               \E p \in 1..tail : MatchesAt(sent, Labelled(history[i]), p)
                                  /\ p + Len(Labelled(history[i])) <= tail
        /\ \A i \in 1..n, j \in 1..n :
               i < j => \E p \in 1..tail, q \in 1..tail :
                           /\ MatchesAt(sent, Labelled(history[i]), p)
                           /\ MatchesAt(sent, Labelled(history[j]), q)
                           /\ p + Len(Labelled(history[i])) <= q

\* C5: whenever a request with a non-empty history has been sent upstream, the
\* prompt sent holds every history entry labelled by its role, in the original
\* order, followed by the new prompt.
C5_HistoryInPrompt ==
    gen.calls >= 1 /\ Len(gen.history) > 0 =>
        HoldsHistoryThenPrompt(gen.finalPrompt, gen.history, gen.prompt)

\* C6: a request never makes more than one upstream POST; it has made exactly
\* one while it waits for the upstream, and when it is finished it has made
\* one if the prompt was present and none if it was missing.
C6_OneUpstreamCall ==
    /\ gen.calls <= 1
    /\ gen.pc \in {"awaitFetch", "awaitBody"} => gen.calls = 1
    /\ gen.pc = "done" => gen.calls = (IF gen.prompt = <<>> THEN 0 ELSE 1)

\* a request that ended in an upstream failure, having called the upstream once
C6_FailedAfterOneCall ==
    /\ gen.pc = "done"
    /\ gen.upstream \in {"network", "abort", "bad-status"}
    /\ gen.response.status \in {408, 500, 503}
    /\ gen.calls = 1

\* the log entries written since the request arrived
EntriesOfRequest == {i \in 1..Len(logs) : logs[i].id >= gen.firstLog}

\* t is what is left of s after cutting it to at most n characters
IsPreview(t, s, n) ==
    /\ Len(t) = Min(Len(s), n)
    /\ \A j \in 1..Len(t) : t[j] = s[j]

\* C7: a finished relay attempt has left a log entry that names the upstream
\* URL and carries the prompt cut to its first 100 characters, and no entry
\* of the request holds a prompt that is longer than that in full.
C7_AttemptLogged ==
    gen.pc = "done" /\ gen.prompt # <<>> =>
        /\ \E i \in EntriesOfRequest :
               /\ Includes(logs[i].message, gen.fullUrl)
               /\ IsPreview(logs[i].data.text, gen.prompt, PreviewLen)
        /\ Len(gen.prompt) > PreviewLen =>
               \A i \in EntriesOfRequest :
                   /\ ~Includes(logs[i].message, gen.prompt)
                   /\ ~Includes(logs[i].data.text, gen.prompt)

----------------------------------------------------------------------------
(* Properties of the log buffer, checked under SpecLog *)

\* the number of entries appended so far
Appended == nextId - 1

\* C8: the buffer never holds more than 1000 entries; it holds the
\* min(appended, 1000) most recently appended entries, in append order.
C8_LogBufferBounded ==
    /\ Len(logs) <= LogCap
    /\ Len(logs) = Min(Appended, LogCap)
    /\ \A i \in 1..Len(logs) : logs[i].id = Appended - Len(logs) + i

\* the buffer has overflowed: the oldest entry is gone, the newest is there
C8_Overflowed ==
    /\ Appended > LogCap
    /\ Len(logs) = LogCap
    /\ logs[1].id = Appended - LogCap + 1
    /\ logs[LogCap].id = Appended

\* C9: getLogs(limit) with limit >= 0 returns exactly min(limit, buffer size)
\* entries, the most recently appended ones, newest first.
C9_GetLogsNewestFirst ==
    logsView.op = "getLogs" =>
        LET size == Min(logsView.at - 1, LogCap)
        IN  /\ Len(logsView.result) = Min(logsView.limit, size)
            /\ \A i \in 1..Len(logsView.result) : logsView.result[i].id = logsView.at - i

\* every returned entry is an error without the two filtered phrases, and
\* the entries come newest first
OnlyShownErrorsNewestFirst(result) ==
    /\ \A i \in 1..Len(result) :
           /\ result[i].level = "error"
           /\ ~Includes(ToLowerCase(result[i].message), InvalidCredentials)
           /\ ~Includes(ToLowerCase(result[i].message), LoginFailedText)
    /\ \A i \in 1..Len(result), j \in 1..Len(result) : i < j => result[i].id > result[j].id

----------------------------------------------------------------------------
(* Properties of the chat store, checked under SpecChat *)

\* C11: a chat that was created and is no longer stored (deleteChat has
\* completed for it) has no message that getChatMessages returns, and is in
\* no user's getUserChats listing.
C11_DeletedChatLeavesNothing ==
    \A c \in 1..(ids.chat - 1) :
        GetChat(chats, c) = {} =>
            /\ GetChatMessages(messages, c) = <<>>
            /\ \A u \in users :
                   \A k \in 1..Len(GetUserChats(chats, u.id)) : GetUserChats(chats, u.id)[k].id # c

\* C12: every stored message references a stored chat.  deleteChat removes
\* a chat's messages with it, so a message whose chat is not stored is one
\* that createMessage added for a chat that did not exist.
C12_MessagesReferenceChats ==
    \A i \in 1..Len(messages) : GetChat(chats, messages[i].chatId) # {}

\* the chat stored under id c
TheChat(cs, c) == CHOOSE ch \in GetChat(cs, c) : TRUE

ChatOps == {"listChats", "createChat", "listMessages", "createMessage", "renameChat", "deleteChat"}

\* C18: while the session has no userId, no step changes the stored chats
\* or messages, every response of a chat endpoint is 401 'Not
\* authenticated', and a step that sends one leaves the users unchanged.
C18_ChatsNeedSession ==
    [][session = 0 =>
          /\ chats' = chats
          /\ messages' = messages
          /\ last' # last /\ last'.op \in ChatOps =>
                 /\ last'.status = 401
                 /\ last'.error = "Not authenticated"
                 /\ users' = users
      ]_vars

\* a message was posted to a stored chat on a session without a userId
C18_RejectedWithChatsStored ==
    /\ session = 0
    /\ last.op = "createMessage"
    /\ last.status = 401
    /\ GetChat(chats, last.chatId) # {}

----------------------------------------------------------------------------
(* Properties of register, login and the session, checked under SpecAuth *)

\* request r was answered in this step
Answered(r) == auth[r].pc # "done" /\ auth'[r].pc = "done"

\* C14: a register or login request that is answered 200 is answered in a
\* state where the stored session holds the user id of the response.
C14_SessionSavedBeforeResponse ==
    [][\A r \in Slots :
          Answered(r) /\ auth'[r].response.status = 200 =>
              /\ auth'[r].response.userId # 0
              /\ session' = auth'[r].response.userId
      ]_vars

\* a request has been answered 200 and the stored session holds its user
C14_AnsweredWithSession ==
    \E r \in Slots :
        /\ auth[r].pc = "done"
        /\ auth[r].response.status = 200
        /\ session = auth[r].response.userId

C16_RegisterThenLogin ==
    \A s \in Slots, r \in Slots :
        /\ auth[s].kind = "register" /\ auth[s].response.status = 200
        /\ auth[r].kind = "login" /\ auth[r].pc = "done"
        /\ s \in auth[r].seen
        /\ auth[r].username = auth[s].username
        /\ auth[r].password = auth[s].password
        => /\ auth[r].response.status \notin {400, 401}
           /\ auth[r].response.status = 200 =>
                  auth[r].response.userId = auth[s].response.userId

\* the login of request r found a user whose registration gave another password
WrongPassword(a) ==
    /\ a.kind = "login"
    /\ a.found # 0
    /\ a.password # <<>>
    /\ \E s \in Slots : /\ auth'[s].kind = "register"
                        /\ auth'[s].userId = a.found
                        /\ auth'[s].password # a.password

C19_UsernamesUnique ==
    \A u \in users, v \in users : u.username = v.username => u.id = v.id

\* C20: no stored password is the plaintext its registration supplied, and
\* every login answered 200 supplied a password whose bcrypt hash is the
\* stored one.
C20_PasswordsHashed ==
    /\ \A u \in users : \A s \in Slots :
           auth[s].kind = "register" /\ auth[s].userId = u.id => u.password # auth[s].password
    /\ \A r \in Slots :
           auth[r].kind = "login" /\ auth[r].response.status = 200 =>
               BcryptCompare(auth[r].password, auth[r].hash)

\* the password of login a is not the one its user was stored with
NonMatching(a) ==
    IF build = "routes" THEN ~BcryptCompare(a.password, a.hash) ELSE a.hash # a.password

\* C21: two logins with the same username and password, one made while the
\* username was not registered and one that found the user and supplied a
\* password that does not match, get the same status and body.
C21_FailedLoginUniform ==
    \A r \in Slots, s \in Slots :
        /\ auth[r].kind = "login" /\ auth[r].pc = "done"
        /\ auth[s].kind = "login" /\ auth[s].pc = "done"
        /\ auth[r].username = auth[s].username /\ auth[r].username # <<>>
        /\ auth[r].password = auth[s].password /\ auth[r].password # <<>>
        /\ auth[r].found = 0
        /\ auth[s].found # 0 /\ NonMatching(auth[s])
        => auth[r].response = auth[s].response

\* the same wrong password was tried before and after the username was
\* registered, and both logins have been answered
C21_TriedBeforeAndAfter ==
    \E r \in Slots, s \in Slots :
        /\ auth[r].kind = "login" /\ auth[r].pc = "done"
        /\ auth[s].kind = "login" /\ auth[s].pc = "done"
        /\ auth[r].password = auth[s].password /\ auth[r].password # <<>>
        /\ auth[r].found = 0
        /\ auth[s].found # 0 /\ NonMatching(auth[s])
        /\ auth[s].response.status = 401

----------------------------------------------------------------------------
(* Properties of upsertSetting, checked under SpecSettings *)

\* C22: in either backend there is at most one setting per key, every
\* completed upsertSetting call succeeded, getSettingByKey returns the
\* value of the last completed upsert of the key, and no upsert of the
\* value already stored changed the store.
C22_UpsertIdempotent ==
    /\ \A i \in 1..Len(db.settings), j \in 1..Len(db.settings) :
           db.settings[i].key = db.settings[j].key => i = j
    /\ \A s \in UpsertSlots : call.upserts[s].pc = "done" => call.upserts[s].ok
    /\ \A k \in SettingKeys :
           /\ call.memLast[k] # <<>> => GetSettingValue(settings, k) = call.memLast[k]
           /\ call.dbLast[k] # <<>> => DbGetSettingValue(db.settings, k) = call.dbLast[k]
    /\ ~call.repeatChanged

----------------------------------------------------------------------------
(* Properties of the two backends, checked under SpecStore *)

\* C23: the last call of the storage contract returned the same from
\* MemStorage and from DatabaseStorage; deleteChat's result is "true"
\* exactly when the chat was stored, updateChat's is empty exactly when it
\* was not.
C23_BackendsAgree ==
    call.mem = call.db

\* listing l holds exactly the chats of cs that userId owns, each once,
\* with updatedAt never rising
ListsOwnChats(l, cs, userId) ==
    /\ {l[k].id : k \in 1..Len(l)} = {cs[i].id : i \in {j \in 1..Len(cs) : cs[j].userId = userId}}
    /\ \A k \in 1..Len(l) : l[k].userId = userId /\ GetChat(cs, l[k].id) = {l[k]}
    /\ \A i \in 1..Len(l), j \in 1..Len(l) :
           /\ l[i].id = l[j].id => i = j
           /\ i < j => l[i].updatedAt >= l[j].updatedAt

----------------------------------------------------------------------------
(* Further properties of the auth handlers, checked under SpecAuth *)

\* C25: a step that answers a register or login request, a logout or
\* /api/auth/me with a 4xx or 5xx status appends a log entry.
C25_ErrorsLogged ==
    [][/\ \A r \in Slots :
              Answered(r) /\ auth'[r].response.status >= 400 => nextId' = nextId + 1
       /\ last' # last /\ last'.status >= 400 => nextId' = nextId + 1
      ]_vars

----------------------------------------------------------------------------
(* Properties of the chat endpoints with two users, checked under SpecOwner *)

\* C26: a message list, message append, rename or delete that a logged-in
\* user sends for a stored chat of another user is answered 200 and done:
\* the list is the chat's messages, the message is appended, the title is
\* the new one, the chat and its messages are gone.
C26_NoOwnershipCheck ==
    [][\A c \in 1..MaxChats :
          IF GetChat(chats, c) = {} \/ session = 0 \/ last' = last \/ last'.chatId # c
          THEN TRUE
          ELSE TheChat(chats, c).userId # session =>
                   /\ last'.status = 200
                   /\ last'.op = "listMessages" =>
                          last'.result = GetChatMessages(messages, c)
                   /\ last'.op = "createMessage" =>
                          GetChatMessages(messages', c) =
                              Append(GetChatMessages(messages, c), last'.result[1])
                   /\ last'.op = "renameChat" =>
                          \A ch \in GetChat(chats', c) : ch.title = <<"r">>
                   /\ last'.op = "deleteChat" =>
                          GetChat(chats', c) = {} /\ GetChatMessages(messages', c) = <<>>
      ]_vars

\* a logged-in user has been given the messages of a chat of another user
C26_StrangerReadMessages ==
    /\ last.op = "listMessages"
    /\ last.status = 200
    /\ Len(last.result) >= 1
    /\ session = last.userId
    /\ \E ch \in GetChat(chats, last.chatId) : ch.userId # last.userId

----------------------------------------------------------------------------
(* Properties of the client, checked under SpecClient *)

C30_OneChatOneGeneration ==
    /\ Len(chats) <= 1
    /\ Cardinality(client.inFlight) <= 1

----------------------------------------------------------------------------
(* Properties of the relay under its scheduling, checked under SpecRelay *)

\* C28: every /api/generate request that passed validation is eventually
\* answered, whatever the upstream does.
C28_AlwaysAnswers ==
    (gen.pc \in {"awaitSearch", "awaitFetch", "awaitBody"}) ~> (gen.pc = "done")

\* as long as the upstream has sent no headers, the request is answered
C28_AnsweredBeforeHeaders ==
    (gen.pc \in {"awaitSearch", "awaitFetch"}) ~> (gen.pc \in {"awaitBody", "done"})

----------------------------------------------------------------------------
(* Properties of registration, checked under SpecAuth *)

\* C29: a register request that was answered with an error has added no
\* user to storage, so its username can still be registered.
C29_RegisterAllOrNothing ==
    \A r \in Slots :
        (auth[r].kind = "register" /\ auth[r].pc = "done" /\ auth[r].response.status >= 400)
            => ~\E u \in users : u.id = auth[r].userId

====
